---- MODULE Spec2Model ----
(***************************************************************************)
(* Video-Reel: the video assembly / compilation pipeline.                  *)
(*                                                                         *)
(* One video job is modelled: its stored record (status, errorMessage,     *)
(* videoUrl, assets, subtitleData), the HTTP routes that act on it, the    *)
(* script-and-images pipeline (generateScriptAndImages), the compile       *)
(* pipeline (compileVideoInBackground with createVideoWithRemotion), the   *)
(* older single-pass pipeline (generateVideoContent) and the FFmpeg render *)
(* backends.  Times are integers; the unit is half a second.               *)
(***************************************************************************)
EXTENDS Integers, Sequences, FiniteSets, TLC

(* ------------------------------ bounds -------------------------------- *)
MaxSegs == 2          \* script segments (= images = audio clips) per job
MaxDur == 2           \* longest clip duration, in half seconds
MaxRuns == 2          \* pipeline runs started for the job
MaxText == 3          \* length of the arbitrary part of a text
MaxIndex == 10        \* largest image index given to an effect selector
MaxCredits == 3       \* largest balance and largest cost of a job
MaxRequests == 2      \* generate requests in flight for the job
MaxSlots == 5         \* longest requested video, in slots of SegmentSeconds
MaxCreates == 2       \* create requests of one user in flight

VARIABLES
  status,        \* videos.status of the job
  errorMessage,  \* videos.errorMessage ("null" when unset)
  videoUrl,      \* videos.videoUrl ("null" when unset)
  assets,        \* videos.assets
  subtitleData,  \* videos.subtitleData (stored caption list)
  req,           \* route handlers between their status check and their write
  gen,           \* the running generateScriptAndImages call
  cmp,           \* the running compileVideoInBackground call
  files,         \* files present in the job's temp workspace
  leg,           \* the running generateVideoContent call
  be,            \* a render backend invocation
  txt,           \* a text on its way into a drawtext argument
  play,          \* a renderer showing the captions and images of a job
  ledger,        \* the user's credits and the generate requests drawing on them
  library        \* the user's stored videos and the create requests in flight

vars == <<status, errorMessage, videoUrl, assets, subtitleData, req, gen, cmp, files, leg, be, txt, play, ledger,
         library>>

(* ------------------------------ values -------------------------------- *)
\* src/unnamed/part_005:35 documents the stored status values.
CodeStatuses == {"pending", "script_generated", "editing", "generating",
                 "compiling", "completed", "failed"}

\* The state names of the specification's render state machine.
SpecStatuses == {"pending", "probing", "assembling_audio", "composing_visual",
                 "rendering", "completed", "failed", "timed_out"}

\* The shared temp directory and the directory of the job inside it.
TempDir == "temp"
JobDir == "temp/id"

NoAssets == [present |-> FALSE, images |-> 0, scriptSegments |-> <<>>, audioSegments |-> 0]

\* Script segments as returned by the script generator: the planned duration
\* of every segment.
PlannedDurations == {MaxDur}
Scripts == UNION {[1..n -> PlannedDurations] : n \in 1..MaxSegs}

\* What the ffprobe subprocess can do: exit non-zero, or exit 0 with an
\* output that parseFloat turns into NaN or into a number.
ProbeOutcomes ==
  {[code |-> 1, nan |-> TRUE, value |-> 0], [code |-> 0, nan |-> TRUE, value |-> 0]}
    \cup {[code |-> 0, nan |-> FALSE, value |-> v] : v \in (-1)..MaxDur}

\* getAudioDuration: resolves with the parsed number unless the exit code is
\* non-zero or the output is NaN.
getAudioDuration(o) ==
  IF o.code = 0
    THEN IF ~o.nan
           THEN [ok |-> TRUE, value |-> o.value, err |-> "null"]
           ELSE [ok |-> FALSE, value |-> 0, err |-> "Could not parse audio duration"]
    ELSE [ok |-> FALSE, value |-> 0, err |-> "ffprobe failed with code 1"]

RECURSIVE SumSeq(_)
SumSeq(s) == IF s = <<>> THEN 0 ELSE s[1] + SumSeq(Tail(s))

\* (mutant) the running time advances by the planned duration.
RECURSIVE SubtitleFold_Planned(_, _, _, _)
SubtitleFold_Planned(segs, durs, index, currentTime) ==
  IF index > Len(segs)
    THEN <<>>
    ELSE <<[text |-> index,
            duration |-> durs[index],
            startTime |-> currentTime,
            endTime |-> currentTime + durs[index]]>>
         \o SubtitleFold_Planned(segs, durs, index + 1, currentTime + segs[index])

\* compileVideoInBackground: subtitleData.segments, the map over the script
\* segments with the running currentTime (text is the segment's index).
RECURSIVE SubtitleFold(_, _, _, _)
SubtitleFold(segs, durs, index, currentTime) ==
  IF index > Len(segs)
    THEN <<>>
    ELSE <<[text |-> index,
            duration |-> durs[index],
            startTime |-> currentTime,
            endTime |-> currentTime + durs[index]]>>
         \o SubtitleFold(segs, durs, index + 1, currentTime + durs[index])

BuildSubtitleSegments(segs, durs) == SubtitleFold(segs, durs, 1, 0)

\* audioDurations.reduce((sum, d) => sum + d, 0)
TotalAudioDuration(durs) == SumSeq(durs)

(* ------------------------------ initial state -------------------------- *)
IdleReq == [generate |-> "idle", compile |-> "idle", retry |-> "idle", runs |-> 0]
IdleGen == [pc |-> "idle", segs |-> <<>>, images |-> 0, err |-> "null",
            topic |-> <<>>, duration |-> 0, cause |-> "none", source |-> "none"]
IdleCmp == [pc |-> "idle", segs |-> <<>>, nimages |-> 0, i |-> 0,
            audioDurations |-> <<>>, probes |-> <<>>, images |-> 0,
            captions |-> <<>>, total |-> 0, err |-> "null"]
IdleLeg == [pc |-> "idle", race |-> "idle", timedOut |-> FALSE, firedAt |-> "none",
            subtitles |-> FALSE,
            segs |-> <<>>, images |-> 0, clipDurs |-> <<>>, tempFiles |-> {},
            probes |-> <<>>, captions |-> <<>>, currentStartTime |-> 0, err |-> "null"]
IdleBe == [pc |-> "idle", strategy |-> "none", n |-> 0, clips |-> 0, total |-> 0,
           durs |-> <<>>, title |-> FALSE, fallback |-> "none", result |-> "none",
           err |-> "null", slots |-> <<>>, scale |-> 1, videoEnd |-> 0,
           proc |-> "none", audioIn |-> "none", imageIn |-> "none", output |-> "none",
           topic |-> FALSE, norm |-> 0, dir |-> "none", steps |-> <<>>,
           cause |-> "none", textFont |-> "undefined", textColor |-> "undefined",
           subtitles |-> [enabled |-> FALSE, segments |-> <<>>], overlay |-> <<>>,
           map |-> "none"]

IdleTxt == [pc |-> "idle", sanitizer |-> "none", input |-> <<>>, output |-> <<>>, lines |-> <<>>]

NoQuote == [pc |-> "idle", duration |-> 0, imageProvider |-> "none", imageStyle |-> "none",
            shown |-> 0, charged |-> 0]

IdleLedger == [credits |-> 0, cost |-> 0, charged |-> 0, pc |-> <<>>, quote |-> NoQuote]

IdleLibrary == [storage |-> "none", videos |-> {}, clock |-> 0, pc |-> <<>>, todo |-> <<>>]

NoEffect == [of |-> "none", index |-> 0, preset |-> "none"]

IdlePlay == [pc |-> "idle", renderer |-> "none", fallback |-> FALSE, durs |-> <<>>, images |-> 0,
             captions |-> <<>>, windows |-> <<>>, t |-> 0, subtitlesEnabled |-> TRUE, visible |-> {},
             image |-> 0, effect |-> NoEffect, prevEffect |-> NoEffect]

JobInit ==
  /\ status = "pending"
  /\ errorMessage = "null"
  /\ videoUrl = "null"
  /\ assets = NoAssets
  /\ subtitleData = <<>>
  /\ req = IdleReq
  /\ gen = IdleGen
  /\ cmp = IdleCmp
  /\ files = {}

Init ==
  /\ JobInit
  /\ leg = IdleLeg
  /\ be = IdleBe
  /\ txt = IdleTxt
  /\ play = IdlePlay
  /\ ledger = IdleLedger
  /\ library = IdleLibrary

(* ------------------------------ routes --------------------------------- *)
\* POST /api/videos/:id/generate, up to the status check.
GenerateCheck ==
  /\ req.generate = "idle"
  /\ status = "pending"
  /\ req' = [req EXCEPT !.generate = "checked"]
  /\ UNCHANGED <<status, errorMessage, videoUrl, assets, subtitleData, gen, cmp, files, leg, be, txt, play, ledger, library>>

\* ... the credit check or the deduction refuses: 402, nothing written.
GenerateRefused ==
  /\ req.generate = "checked"
  /\ req' = [req EXCEPT !.generate = "idle"]
  /\ UNCHANGED <<status, errorMessage, videoUrl, assets, subtitleData, gen, cmp, files, leg, be, txt, play, ledger, library>>

\* ... status := generating and generateScriptAndImages is started.
GenerateStart ==
  /\ req.generate = "checked"
  /\ gen.pc = "idle"
  /\ req.runs < MaxRuns
  /\ status' = "generating"
  /\ gen' = [IdleGen EXCEPT !.pc = "script"]
  /\ req' = [req EXCEPT !.generate = "idle", !.runs = @ + 1]
  /\ UNCHANGED <<errorMessage, videoUrl, assets, subtitleData, cmp, files, leg, be, txt, play, ledger, library>>

\* PUT /api/videos/:id/script
UpdateScript ==
  /\ status' = "editing"
  /\ UNCHANGED <<errorMessage, videoUrl, assets, subtitleData, req, gen, cmp, files, leg, be, txt, play, ledger, library>>

\* POST /api/videos/:id/regenerate-images
RegenerateImages ==
  /\ status' = "script_generated"
  /\ UNCHANGED <<errorMessage, videoUrl, assets, subtitleData, req, gen, cmp, files, leg, be, txt, play, ledger, library>>

\* POST /api/videos/:id/compile, up to the status check.
CompileCheck ==
  /\ req.compile = "idle"
  /\ status = "editing"
  /\ req' = [req EXCEPT !.compile = "checked"]
  /\ UNCHANGED <<status, errorMessage, videoUrl, assets, subtitleData, gen, cmp, files, leg, be, txt, play, ledger, library>>

\* ... status := generating and compileVideoInBackground is started.
CompileStart ==
  /\ req.compile = "checked"
  /\ cmp.pc = "idle"
  /\ req.runs < MaxRuns
  /\ status' = "generating"
  /\ cmp' = [IdleCmp EXCEPT !.pc = "setCompiling"]
  /\ req' = [req EXCEPT !.compile = "idle", !.runs = @ + 1]
  /\ UNCHANGED <<errorMessage, videoUrl, assets, subtitleData, gen, files, leg, be, txt, play, ledger, library>>

\* POST /api/videos/:id/retry, up to the status check.
RetryCheck ==
  /\ req.retry = "idle"
  /\ status \in {"failed", "generating"}
  /\ req' = [req EXCEPT !.retry = "checked"]
  /\ UNCHANGED <<status, errorMessage, videoUrl, assets, subtitleData, gen, cmp, files, leg, be, txt, play, ledger, library>>

\* (mutant) the reset write without `assets: null`.
RetryReset_KeepAssets ==
  /\ req.retry = "checked"
  /\ status' = "pending"
  /\ errorMessage' = "null"
  /\ videoUrl' = "null"
  /\ req' = [req EXCEPT !.retry = "idle"]
  /\ UNCHANGED <<assets, subtitleData, gen, cmp, files, leg, be, txt, play, ledger, library>>

\* ... the reset write.
RetryReset ==
  /\ req.retry = "checked"
  /\ status' = "pending"
  /\ errorMessage' = "null"
  /\ videoUrl' = "null"
  /\ assets' = NoAssets
  /\ req' = [req EXCEPT !.retry = "idle"]
  /\ UNCHANGED <<subtitleData, gen, cmp, files, leg, be, txt, play, ledger, library>>


(* ---------------------- generateScriptAndImages ------------------------ *)
GenUnchanged == UNCHANGED <<req, cmp, leg, be, txt, play, ledger, library>>

\* Step 1: the script generator returns segments; on a quota error the
\* offline fallback generator supplies them.
GenScriptOk ==
  /\ gen.pc = "script"
  /\ \E s \in Scripts : gen' = [gen EXCEPT !.pc = "images", !.segs = s]
  /\ UNCHANGED <<status, errorMessage, videoUrl, assets, subtitleData, files>>
  /\ GenUnchanged

\* ... any other script generator error is rethrown to the outer catch.
GenScriptFail ==
  /\ gen.pc = "script"
  /\ gen' = [gen EXCEPT !.pc = "catch", !.err = "script generation failed"]
  /\ UNCHANGED <<status, errorMessage, videoUrl, assets, subtitleData, files>>
  /\ GenUnchanged

\* Step 2: one image per script segment.
GenImageOk ==
  /\ gen.pc = "images"
  /\ gen.images < Len(gen.segs)
  /\ gen' = [gen EXCEPT !.images = @ + 1,
                        !.pc = IF gen.images + 1 = Len(gen.segs) THEN "preview" ELSE "images"]
  /\ UNCHANGED <<status, errorMessage, videoUrl, assets, subtitleData, files>>
  /\ GenUnchanged

GenImageFail ==
  /\ gen.pc = "images"
  /\ gen.images < Len(gen.segs)
  /\ gen' = [gen EXCEPT !.pc = "catch", !.err = "image generation failed"]
  /\ UNCHANGED <<status, errorMessage, videoUrl, assets, subtitleData, files>>
  /\ GenUnchanged

\* Preview audio for the first segment; a failure is logged and ignored.
GenPreview ==
  /\ gen.pc = "preview"
  /\ gen' = [gen EXCEPT !.pc = "save"]
  /\ \/ files' = files \cup {<<"preview_audio.mp3", 0, JobDir>>}
     \/ files' = files
  /\ UNCHANGED <<status, errorMessage, videoUrl, assets, subtitleData>>
  /\ GenUnchanged

\* updateVideo({script, assets: {images, scriptSegments}, status: "editing"})
GenSave ==
  /\ gen.pc = "save"
  /\ status' = "editing"
  /\ assets' = [present |-> TRUE, images |-> gen.images,
                scriptSegments |-> gen.segs, audioSegments |-> 0]
  /\ gen' = IdleGen
  /\ UNCHANGED <<errorMessage, videoUrl, subtitleData, files>>
  /\ GenUnchanged

\* catch of generateScriptAndImages: failed with the message, then rethrow.
GenCatch ==
  /\ gen.pc = "catch"
  /\ status' = "failed"
  /\ errorMessage' = gen.err
  /\ gen' = [gen EXCEPT !.pc = "routeCatch"]
  /\ UNCHANGED <<videoUrl, assets, subtitleData, files>>
  /\ GenUnchanged

\* .catch of the generate route: failed with the message, once more.
GenRouteCatch ==
  /\ gen.pc = "routeCatch"
  /\ status' = "failed"
  /\ errorMessage' = gen.err
  /\ gen' = IdleGen
  /\ UNCHANGED <<videoUrl, assets, subtitleData, files>>
  /\ GenUnchanged

(* ------------------------- render backends ----------------------------- *)
\* A backend is called with the images, the audio clips, the total duration
\* and the script segments' durations.
BeCall(strategy, n, clips, total, durs) ==
  [IdleBe EXCEPT !.pc = "concat", !.strategy = strategy, !.n = n, !.clips = clips,
                 !.total = total, !.durs = durs, !.audioIn = "audio.mp3",
                 !.imageIn = "image.jpg", !.output = "output.mp4", !.dir = JobDir]

\* The audio commands a backend has started, in order.
NormalizeStep(i) == [op |-> "normalize", clips |-> <<i>>]
ConcatStep(n) == [op |-> "concat", clips |-> [i \in 1..n |-> i]]

BeUnchanged == UNCHANGED <<status, errorMessage, videoUrl, assets, subtitleData, req, gen, cmp, leg, txt, play, ledger, library>>

BeReturn(b) ==
  [b EXCEPT !.pc = "returned", !.result = "ok", !.proc = "none",
            !.fallback = IF @ = "running" THEN "ok" ELSE @]
BeThrow(b, msg) ==
  [b EXCEPT !.pc = "returned", !.result = "failed", !.err = msg, !.proc = "none",
            !.fallback = IF @ = "running" THEN "failed" ELSE @]

\* createVideoWithRemotion / concatenateAudioSegments: ffmpeg closes with
\* code 0, the list file is unlinked and final_audio.wav exists.
RemotionConcatOk ==
  /\ be.strategy = "remotion" /\ be.pc = "concat"
  /\ files' = (files \ {<<"audio_files.txt", 0, be.dir>>}) \cup {<<"final_audio.wav", 0, be.dir>>}
  /\ be' = [be EXCEPT !.pc = "render", !.steps = Append(@, ConcatStep(be.clips))]
  /\ BeUnchanged

\* ffmpeg closes with a non-zero code (list file unlinked), or the spawn
\* raises 'error' (list file left behind); createVideoWithRemotion rethrows.
RemotionConcatFail ==
  /\ be.strategy = "remotion" /\ be.pc = "concat"
  /\ \/ /\ files' = files \ {<<"audio_files.txt", 0, be.dir>>}
        /\ be' = BeThrow([be EXCEPT !.steps = Append(@, ConcatStep(be.clips))],
                         "FFmpeg failed with code 1")
     \/ /\ files' = files
        /\ be' = BeThrow([be EXCEPT !.steps = Append(@, ConcatStep(be.clips))],
                         "spawn ffmpeg ENOENT")
  /\ BeUnchanged

\* renderVideoWithRemotion: bundle, selectComposition and renderMedia.
RemotionRenderOk ==
  /\ be.strategy = "remotion" /\ be.pc = "render"
  /\ files' = files \cup {<<"output.mp4", 0, be.dir>>}
  /\ be' = [be EXCEPT !.pc = "addAudio"]
  /\ BeUnchanged

\* The renderer raises (for instance the headless browser is missing):
\* createVideoWithRemotion rethrows, no other backend is tried.
RemotionRenderFail ==
  /\ be.strategy = "remotion" /\ be.pc = "render"
  /\ be' = BeThrow(be, "Remotion render failed")
  /\ UNCHANGED files
  /\ BeUnchanged

\* addAudioToVideo: ffmpeg writes <output>_with_audio.mp4, which is renamed
\* over the output.
RemotionAddAudioOk ==
  /\ be.strategy = "remotion" /\ be.pc = "addAudio"
  /\ be' = BeReturn(be)
  /\ UNCHANGED files
  /\ BeUnchanged

RemotionAddAudioFail ==
  /\ be.strategy = "remotion" /\ be.pc = "addAudio"
  /\ be' = BeThrow(be, "FFmpeg failed with code 1")
  /\ \/ files' = files \cup {<<"output_with_audio.mp4", 0, be.dir>>}
     \/ files' = files
  /\ BeUnchanged

(* --------------- enhancedVideoProcessor.createVideo -------------------- *)
\* Padding added to every image input of createAdvancedVideo: 1 second.
EnhancedPad == 2

Min(a, b) == IF a < b THEN a ELSE b

\* The windows of the image inputs in the concatenated video stream.  Times
\* are multiplied by n, so that totalDuration / n is exact: every input lasts
\* (content / n + pad), the first one starts after the title, and the output
\* is cut at `cut` (the end of the audio under -shortest).
RECURSIVE SlotFold(_, _, _, _, _)
SlotFold(n, index, start, len, cut) ==
  IF index > n
    THEN <<>>
    ELSE <<[image |-> index,
            startTime |-> Min(start, cut),
            endTime |-> Min(start + len, cut)]>>
         \o SlotFold(n, index + 1, start + len, len, cut)

ImageSlots(n, content, pad, title, cut) ==
  SlotFold(n, 1, title * n, content + pad * n, cut * n)

\* The enhanced backend runs when it is called directly, or as the fallback
\* of createVideoWithRevideo.
EnhActive == be.strategy = "enhanced" \/ (be.strategy = "revideo" /\ be.fallback = "running")

InputsPresent(kind, n) == \A i \in 1..n : <<kind, i, be.dir>> \in files

\* createVideo's asset check, then processAudio: the audio files are checked,
\* the list file is written for more than one clip, ffmpeg is spawned.
EnhAudioSpawn ==
  /\ EnhActive /\ be.pc = "concat"
  /\ IF be.n = 0 \/ be.clips = 0
       THEN be' = BeThrow(be, "No assets provided for video creation") /\ files' = files
       ELSE IF ~InputsPresent(be.audioIn, be.clips)
         THEN be' = BeThrow(be, "Audio file not found") /\ files' = files
         ELSE /\ be' = [be EXCEPT !.pc = "audioRunning", !.proc = "ffmpeg",
                                  !.steps = Append(@, IF be.clips = 1
                                                        THEN NormalizeStep(1)
                                                        ELSE ConcatStep(be.clips))]
              /\ files' = IF be.clips > 1 THEN files \cup {<<"audio_list.txt", 0, be.dir>>} ELSE files
  /\ BeUnchanged

\* ffmpeg closes: the list file is unlinked; code 0 leaves final_audio.wav.
EnhAudioExit ==
  /\ EnhActive /\ be.pc = "audioRunning"
  /\ \/ /\ files' = (files \ {<<"audio_list.txt", 0, be.dir>>}) \cup {<<"final_audio.wav", 0, be.dir>>}
        /\ be' = [be EXCEPT !.pc = "video", !.proc = "none"]
     \/ /\ files' = files \ {<<"audio_list.txt", 0, be.dir>>}
        /\ be' = BeThrow(be, "audio processing failed: 1")
  /\ BeUnchanged

\* createAdvancedVideo: durationPerImage = totalDuration / n, every image is
\* looped for durationPerImage + 1 s, ffmpeg is spawned with -shortest.
\* What createAdvancedVideo reports for a cause of failure: the existence
\* check names the missing image, a non-zero exit gives the exit code whatever
\* made ffmpeg fail, a spawn error is passed on as it is.
EnhErrorMessage(cause) ==
  CASE cause = "missing" -> "Image file not found"
    [] cause \in {"corrupt", "exit"} -> "Advanced video creation failed: 1"
    [] cause = "spawn" -> "spawn ffmpeg ENOENT"
    [] OTHER -> "none"

EnhVideoSpawn ==
  /\ EnhActive /\ be.pc = "video"
  /\ be' = IF ~InputsPresent(be.imageIn, be.n)
             THEN BeThrow([be EXCEPT !.cause = "missing"], EnhErrorMessage("missing"))
             ELSE [be EXCEPT !.pc = "videoRunning", !.proc = "ffmpeg", !.scale = be.n,
                             !.slots = ImageSlots(be.n, be.total, EnhancedPad, 0, SumSeq(be.durs)),
                             !.videoEnd = Min(be.total + EnhancedPad * be.n, SumSeq(be.durs) * be.n)]
  /\ UNCHANGED files
  /\ BeUnchanged

EnhVideoExit ==
  /\ EnhActive /\ be.pc = "videoRunning"
  /\ \/ /\ files' = files \cup {<<be.output, 0, be.dir>>}
        /\ be' = BeReturn(be)
     \/ /\ files' = files
        /\ \E cause \in {"corrupt", "exit", "spawn"} :
             be' = BeThrow([be EXCEPT !.cause = cause], EnhErrorMessage(cause))
  /\ BeUnchanged

(* ------------------- createVideoWithRevideo ---------------------------- *)
\* concatenateAudioSegments of createVideoWithRevideo: the list file is
\* written and ffmpeg closes with code 0, or the call rejects and the catch
\* falls back to the enhanced FFmpeg backend.
RevideoConcat ==
  /\ be.strategy = "revideo" /\ be.fallback = "none" /\ be.pc = "concat"
  /\ \/ /\ files' = files \cup {<<"final_audio.wav", 0, be.dir>>}
        /\ be' = [be EXCEPT !.pc = "render", !.steps = Append(@, ConcatStep(be.clips))]
     \/ /\ files' = files
        /\ be' = [be EXCEPT !.fallback = "running", !.pc = "concat",
                            !.steps = Append(@, ConcatStep(be.clips))]
     \/ /\ files' = files \cup {<<"audio_files.txt", 0, be.dir>>}
        /\ be' = [be EXCEPT !.fallback = "running", !.pc = "concat",
                            !.steps = Append(@, ConcatStep(be.clips))]
  /\ BeUnchanged

\* renderVideoWithRevideo returns, or throws (for instance the Chrome
\* dependency check fails) and the catch falls back.
RevideoRender ==
  /\ be.strategy = "revideo" /\ be.fallback = "none" /\ be.pc = "render"
  /\ \/ /\ files' = files \cup {<<be.output, 0, be.dir>>}
        /\ be' = BeReturn(be)
     \/ /\ files' = files
        /\ be' = [be EXCEPT !.fallback = "running", !.pc = "concat"]
  /\ BeUnchanged

(* ------------------- basicVideoProcessor.createVideo ------------------- *)
\* Padding added to every image input by createBasicVideo and by the
\* videoProcessor's createVideo: half a second.
ImagePad == 1

\* createVideo's asset check.
BasicStart ==
  /\ be.strategy = "basic" /\ be.pc = "concat"
  /\ be' = IF be.n = 0 \/ be.clips = 0
             THEN BeThrow(be, "No assets provided for video creation")
             ELSE [be EXCEPT !.pc = "normalize"]
  /\ UNCHANGED files
  /\ BeUnchanged

\* processAudio: normalizeAudio of the next clip writes norm_<i>.wav ...
BasicNormalize ==
  /\ be.strategy = "basic" /\ be.pc = "normalize"
  /\ be.norm < be.clips
  /\ \/ /\ files' = files \cup {<<"norm.wav", be.norm + 1, be.dir>>}
        /\ be' = [be EXCEPT !.norm = @ + 1, !.steps = Append(@, NormalizeStep(be.norm + 1))]
     \/ /\ files' = files
        /\ be' = BeThrow([be EXCEPT !.steps = Append(@, NormalizeStep(be.norm + 1))],
                         "Audio normalization failed: 1")
  /\ BeUnchanged

\* ... concatenateAudio writes processed_audio.wav and the normalised files
\* are removed; when it rejects they are left.
BasicConcat ==
  /\ be.strategy = "basic" /\ be.pc = "normalize"
  /\ be.norm = be.clips
  /\ \/ /\ files' = {f \in files : f[1] # "norm.wav"} \cup {<<"processed_audio.wav", 0, be.dir>>}
        /\ be' = [be EXCEPT !.pc = "video", !.steps = Append(@, ConcatStep(be.clips))]
     \/ /\ files' = files
        /\ be' = BeThrow([be EXCEPT !.steps = Append(@, ConcatStep(be.clips))],
                         "Audio concatenation failed: 1")
  /\ BeUnchanged

\* createBasicVideo: every image is looped for durationPerImage + 0.5 s,
\* ffmpeg is spawned with -shortest.
BasicVideoSpawn ==
  /\ be.strategy = "basic" /\ be.pc = "video"
  /\ be' = [be EXCEPT !.pc = "videoRunning", !.proc = "ffmpeg", !.scale = be.n,
                      !.slots = ImageSlots(be.n, be.total, ImagePad, 0, SumSeq(be.durs)),
                      !.videoEnd = Min(be.total + ImagePad * be.n, SumSeq(be.durs) * be.n)]
  /\ UNCHANGED files
  /\ BeUnchanged

\* ffmpeg closes: on code 0 the processed audio is removed.
BasicVideoExit ==
  /\ be.strategy = "basic" /\ be.pc = "videoRunning"
  /\ \/ /\ InputsPresent(be.imageIn, be.n)
        /\ files' = (files \ {<<"processed_audio.wav", 0, be.dir>>}) \cup {<<be.output, 0, be.dir>>}
        /\ be' = BeReturn(be)
     \/ /\ files' = files
        /\ be' = BeThrow(be, "Basic video creation failed: 1")
  /\ BeUnchanged

(* --------------------- videoProcessor.createVideo ---------------------- *)
\* The title card lasts 2 seconds.
TitleDuration == 4

RenderTimeoutMessage == "Video creation timed out after 5 minutes"

\* What the close, error and timer handlers report for a cause of failure:
\* the close handler looks for known phrases in ffmpeg's stderr.
VpErrorMessage(cause) ==
  CASE cause = "missing" -> "Video compilation failed: Missing input files"
    [] cause = "corrupt" -> "Video compilation failed: Corrupted audio or image data"
    [] cause = "exit" -> "FFmpeg process failed (exit code: 1)"
    [] cause = "spawn" -> "Failed to start FFmpeg"
    [] cause = "timeout" -> RenderTimeoutMessage
    [] OTHER -> "none"

\* The asset check, then createTitlePage when a topic is given; a failed
\* title page is skipped.
VpStart ==
  /\ be.strategy = "videoProcessor" /\ be.pc = "concat"
  /\ IF be.n = 0 \/ be.clips = 0
       THEN be' = BeThrow(be, "No assets provided for video creation") /\ files' = files
       ELSE \/ /\ be.topic
               /\ be' = [be EXCEPT !.pc = "spawn", !.title = TRUE]
               /\ files' = files \cup {<<"title_page.png", 0, be.dir>>}
            \/ /\ be' = [be EXCEPT !.pc = "spawn", !.title = FALSE]
               /\ files' = files
  /\ BeUnchanged

\* contentDuration = totalDuration - titleDuration, every image is looped
\* for contentDuration / n + 0.5 s after the title; ffmpeg is spawned
\* without -shortest and the 5 minute timer is armed.
VpSpawn ==
  /\ be.strategy = "videoProcessor" /\ be.pc = "spawn"
  /\ LET titleDuration == IF be.title THEN TitleDuration ELSE 0
         contentDuration == be.total - titleDuration
         end == titleDuration * be.n + be.n * (contentDuration + ImagePad * be.n)
     IN be' = [be EXCEPT !.pc = "running", !.proc = "ffmpeg", !.scale = be.n,
                         !.slots = SlotFold(be.n, 1, titleDuration * be.n,
                                            contentDuration + ImagePad * be.n, end),
                         !.videoEnd = end]
  /\ UNCHANGED files
  /\ BeUnchanged

\* ffmpeg closes (or fails to start): the timer is cleared, the title page
\* is removed, the promise resolves on code 0 and rejects otherwise.
VpExit ==
  /\ be.strategy = "videoProcessor" /\ be.pc = "running"
  /\ \/ /\ InputsPresent(be.imageIn, be.n)
        /\ files' = (files \ {<<"title_page.png", 0, be.dir>>}) \cup {<<be.output, 0, be.dir>>}
        /\ be' = BeReturn(be)
     \/ /\ files' = files \ {<<"title_page.png", 0, be.dir>>}
        /\ \E cause \in {"corrupt", "exit", "spawn"}
                        \cup (IF InputsPresent(be.imageIn, be.n) THEN {} ELSE {"missing"}) :
             be' = BeThrow([be EXCEPT !.cause = cause], VpErrorMessage(cause))
  /\ BeUnchanged

\* The timer fires: ffmpeg.kill("SIGKILL") and the promise rejects.
VpTimeout ==
  /\ be.strategy = "videoProcessor" /\ be.pc = "running"
  /\ be' = [be EXCEPT !.pc = "killed", !.proc = "none", !.result = "failed",
                      !.cause = "timeout", !.err = VpErrorMessage("timeout")]
  /\ UNCHANGED files
  /\ BeUnchanged

\* The killed process closes: the title page is removed.
VpClose ==
  /\ be.strategy = "videoProcessor" /\ be.pc = "killed"
  /\ files' = files \ {<<"title_page.png", 0, be.dir>>}
  /\ be' = [be EXCEPT !.pc = "returned"]
  /\ BeUnchanged

(* ---------------------- compileVideoInBackground ----------------------- *)
CmpUnchanged == UNCHANGED <<req, gen, leg, be, txt, play, ledger, library>>


CmpThrow(msg) == [cmp EXCEPT !.pc = "catch", !.err = msg]

\* (mutant) the compile marks the job completed before doing any work.
CmpSetCompiling_Early ==
  /\ cmp.pc = "setCompiling"
  /\ status' = "completed"
  /\ cmp' = [cmp EXCEPT !.pc = "load"]
  /\ UNCHANGED <<errorMessage, videoUrl, assets, subtitleData, files>>
  /\ UNCHANGED <<req, gen, leg, be, txt, play, ledger, library>>

\* updateVideo({status: "compiling"})
CmpSetCompiling ==
  /\ cmp.pc = "setCompiling"
  /\ status' = "compiling"
  /\ cmp' = [cmp EXCEPT !.pc = "load"]
  /\ UNCHANGED <<errorMessage, videoUrl, assets, subtitleData, files>>
  /\ CmpUnchanged

\* getVideo and the scriptSegments check.
CmpLoad ==
  /\ cmp.pc = "load"
  /\ cmp' = IF assets.present /\ Len(assets.scriptSegments) > 0
              THEN [cmp EXCEPT !.pc = "tts", !.segs = assets.scriptSegments,
                               !.nimages = assets.images, !.i = 1]
              ELSE CmpThrow("Invalid script data - no segments found in assets")
  /\ UNCHANGED <<status, errorMessage, videoUrl, assets, subtitleData, files>>
  /\ CmpUnchanged

\* generateAudio for segment i writes temp/<videoId>/audio_<i>.mp3 ...
CmpAudioOk ==
  /\ cmp.pc = "tts"
  /\ files' = files \cup {<<"audio.mp3", cmp.i, JobDir>>}
  /\ cmp' = [cmp EXCEPT !.pc = "probe"]
  /\ UNCHANGED <<status, errorMessage, videoUrl, assets, subtitleData>>
  /\ CmpUnchanged

\* ... or throws.
CmpAudioFail ==
  /\ cmp.pc = "tts"
  /\ cmp' = CmpThrow("Failed to generate audio")
  /\ UNCHANGED <<status, errorMessage, videoUrl, assets, subtitleData, files>>
  /\ CmpUnchanged

\* await getAudioDuration(audioPath) for segment i.
CmpProbe ==
  /\ cmp.pc = "probe"
  /\ \E o \in ProbeOutcomes :
       LET r == getAudioDuration(o) IN
         cmp' = IF r.ok
                  THEN [cmp EXCEPT !.audioDurations = Append(@, r.value),
                                   !.probes = Append(@, o),
                                   !.i = @ + 1,
                                   !.pc = IF cmp.i = Len(cmp.segs) THEN "download" ELSE "tts"]
                  ELSE [CmpThrow(r.err) EXCEPT !.probes = Append(@, o)]
  /\ UNCHANGED <<status, errorMessage, videoUrl, assets, subtitleData, files>>
  /\ CmpUnchanged

\* The image check and downloadImage for the next image.
CmpDownloadOk ==
  /\ cmp.pc = "download"
  /\ cmp.nimages > 0
  /\ cmp.images < cmp.nimages
  /\ files' = files \cup {<<"image.jpg", cmp.images + 1, JobDir>>}
  /\ cmp' = [cmp EXCEPT !.images = @ + 1,
                        !.pc = IF cmp.images + 1 = cmp.nimages THEN "captions" ELSE "download"]
  /\ UNCHANGED <<status, errorMessage, videoUrl, assets, subtitleData>>
  /\ CmpUnchanged

CmpDownloadFail ==
  /\ cmp.pc = "download"
  /\ cmp' = IF cmp.nimages = 0
              THEN CmpThrow("No images found in video assets")
              ELSE CmpThrow("image download failed")
  /\ files' = files \ {<<"image.jpg", cmp.images + 1, JobDir>>}
  /\ UNCHANGED <<status, errorMessage, videoUrl, assets, subtitleData>>
  /\ CmpUnchanged

\* subtitleData and totalAudioDuration are computed and
\* createVideoWithRemotion is called: concatenateAudioSegments writes the
\* list file and spawns ffmpeg.
CmpCaptions ==
  /\ cmp.pc = "captions"
  /\ be.pc = "idle"
  /\ cmp' = [cmp EXCEPT !.captions = BuildSubtitleSegments(cmp.segs, cmp.audioDurations),
                        !.total = TotalAudioDuration(cmp.audioDurations),
                        !.pc = "render"]
  /\ be' = BeCall("remotion", cmp.images, Len(cmp.audioDurations),
                  TotalAudioDuration(cmp.audioDurations), cmp.audioDurations)
  /\ files' = files \cup {<<"audio_files.txt", 0, JobDir>>}
  /\ UNCHANGED <<status, errorMessage, videoUrl, assets, subtitleData, req, gen, leg, txt, play, ledger, library>>

\* (mutant) the compile goes on to the completed write whatever the backend
\* returned.
CmpRenderReturn_IgnoreResult ==
  /\ cmp.pc = "render"
  /\ be.result # "none"
  /\ cmp' = [cmp EXCEPT !.pc = "complete"]
  /\ be' = IdleBe
  /\ UNCHANGED <<status, errorMessage, videoUrl, assets, subtitleData, files, req, gen, leg, txt, play, ledger, library>>

\* await createVideoWithRemotion(...) returns or throws.
CmpRenderReturn ==
  /\ cmp.pc = "render"
  /\ be.result # "none"
  /\ cmp' = IF be.result = "ok" THEN [cmp EXCEPT !.pc = "complete"] ELSE CmpThrow(be.err)
  /\ be' = IdleBe
  /\ UNCHANGED <<status, errorMessage, videoUrl, assets, subtitleData, files, req, gen, leg, txt, play, ledger, library>>

\* updateVideo({status: "completed", videoUrl, subtitleData, assets})
CmpComplete ==
  /\ cmp.pc = "complete"
  /\ status' = "completed"
  /\ videoUrl' = "output.mp4"
  /\ subtitleData' = cmp.captions
  /\ assets' = [present |-> TRUE, images |-> cmp.nimages,
                scriptSegments |-> cmp.segs, audioSegments |-> Len(cmp.audioDurations)]
  /\ cmp' = IdleCmp
  /\ UNCHANGED <<errorMessage, files>>
  /\ CmpUnchanged

\* catch of compileVideoInBackground: updateVideo({status: "failed"}), rethrow.
CmpCatch ==
  /\ cmp.pc = "catch"
  /\ status' = "failed"
  /\ cmp' = [cmp EXCEPT !.pc = "routeCatch"]
  /\ UNCHANGED <<errorMessage, videoUrl, assets, subtitleData, files>>
  /\ CmpUnchanged

\* .catch of the compile route: failed with the error's message.
CmpRouteCatch ==
  /\ cmp.pc = "routeCatch"
  /\ status' = "failed"
  /\ errorMessage' = cmp.err
  /\ cmp' = IdleCmp
  /\ UNCHANGED <<videoUrl, assets, subtitleData, files>>
  /\ CmpUnchanged

(* ------------------------ generateVideoContent ------------------------- *)
\* The single-pass pipeline: script, images, audio, createVideo, caption
\* timing, completed; raced against a 10 minute timer.
TimeoutMessage == "Video generation timed out after 10 minutes"

LegUnchanged == UNCHANGED <<req, gen, cmp, txt, play, ledger, library>>

\* A probe of a real clip either fails or reports the clip's length.
LegProbeOutcomes(d) ==
  {o \in ProbeOutcomes : o.code # 0 \/ o.nan \/ o.value = d}

\* The generation throws: the race rejects unless it is already settled.
LegThrow(msg) ==
  [leg EXCEPT !.pc = "threw", !.err = msg,
              !.race = IF @ = "pending" THEN "error" ELSE @]

\* generateVideoContent is entered: the timer is armed and the generation
\* promise starts with the script.
LegStart ==
  /\ leg.pc = "idle"
  /\ status = "pending"
  /\ \E sub \in BOOLEAN :
       leg' = [IdleLeg EXCEPT !.pc = "script", !.race = "pending", !.subtitles = sub]
  /\ UNCHANGED <<status, errorMessage, videoUrl, assets, subtitleData, files, be>>
  /\ LegUnchanged

\* Step 1: script segments (from the generator, or the offline fallback on a
\* quota error).
LegScriptOk ==
  /\ leg.pc = "script"
  /\ \E s \in Scripts : leg' = [leg EXCEPT !.pc = "images", !.segs = s]
  /\ UNCHANGED <<status, errorMessage, videoUrl, assets, subtitleData, files, be>>
  /\ LegUnchanged

LegScriptFail ==
  /\ leg.pc = "script"
  /\ leg' = LegThrow("script generation failed")
  /\ UNCHANGED <<status, errorMessage, videoUrl, assets, subtitleData, files, be>>
  /\ LegUnchanged

\* Step 2: the next image is generated and downloaded to
\* image-<videoId>-<i>.jpg, which is recorded in tempFiles.
LegImageOk ==
  /\ leg.pc = "images"
  /\ LET f == <<"image-id.jpg", leg.images + 1, TempDir>> IN
       /\ files' = files \cup {f}
       /\ leg' = [leg EXCEPT !.images = @ + 1, !.tempFiles = @ \cup {f},
                             !.pc = IF leg.images + 1 = Len(leg.segs) THEN "audio" ELSE "images"]
  /\ UNCHANGED <<status, errorMessage, videoUrl, assets, subtitleData, be>>
  /\ LegUnchanged

LegImageFail ==
  /\ leg.pc = "images"
  /\ leg' = LegThrow("image generation failed")
  /\ UNCHANGED <<status, errorMessage, videoUrl, assets, subtitleData, files, be>>
  /\ LegUnchanged

\* Step 3: the next clip is synthesised to audio-<videoId>-<i>.mp3; the clip
\* has some real length.
LegAudioOk ==
  /\ leg.pc = "audio"
  /\ \E d \in 1..MaxDur :
       LET f == <<"audio-id.mp3", Len(leg.clipDurs) + 1, TempDir>> IN
         /\ files' = files \cup {f}
         /\ leg' = [leg EXCEPT !.clipDurs = Append(@, d), !.tempFiles = @ \cup {f},
                               !.pc = IF Len(leg.clipDurs) + 1 = Len(leg.segs)
                                        THEN "render" ELSE "audio"]
  /\ UNCHANGED <<status, errorMessage, videoUrl, assets, subtitleData, be>>
  /\ LegUnchanged

LegAudioFail ==
  /\ leg.pc = "audio"
  /\ leg' = LegThrow("Failed to generate audio")
  /\ UNCHANGED <<status, errorMessage, videoUrl, assets, subtitleData, files, be>>
  /\ LegUnchanged

\* Step 4: createVideo(assets, videoPath, video.duration, subtitles) of the
\* enhanced processor; video.duration is the planned length of the script.
LegRenderStart ==
  /\ leg.pc = "render"
  /\ be.pc = "idle"
  /\ be' = [BeCall("enhanced", leg.images, Len(leg.clipDurs), SumSeq(leg.segs), leg.clipDurs)
              EXCEPT !.audioIn = "audio-id.mp3", !.imageIn = "image-id.jpg",
                     !.output = "video-id.mp4", !.dir = TempDir]
  /\ leg' = [leg EXCEPT !.pc = "rendering"]
  /\ UNCHANGED <<status, errorMessage, videoUrl, assets, subtitleData, files>>
  /\ LegUnchanged

\* await createVideo(...) returns or throws.
LegRenderReturn ==
  /\ leg.pc = "rendering"
  /\ be.result # "none"
  /\ leg' = IF be.result = "ok"
              THEN [leg EXCEPT !.pc = IF leg.subtitles THEN "probe" ELSE "complete"]
              ELSE LegThrow(be.err)
  /\ be' = IdleBe
  /\ UNCHANGED <<status, errorMessage, videoUrl, assets, subtitleData, files>>
  /\ LegUnchanged

\* Step 5, one iteration: audioDuration starts as the script duration and is
\* replaced by the probed one unless getAudioDuration rejects.
LegProbe ==
  /\ leg.pc = "probe"
  /\ LET i == Len(leg.probes) + 1 IN
       \E o \in LegProbeOutcomes(leg.clipDurs[i]) :
         LET r == getAudioDuration(o)
             audioDuration == IF r.ok THEN r.value ELSE leg.segs[i]
         IN leg' = [leg EXCEPT !.probes = Append(@, o),
                               !.captions = Append(@, [text |-> i,
                                                       startTime |-> leg.currentStartTime,
                                                       endTime |-> leg.currentStartTime + audioDuration]),
                               !.currentStartTime = @ + audioDuration,
                               !.pc = IF i = Len(leg.segs) THEN "complete" ELSE "probe"]
  /\ UNCHANGED <<status, errorMessage, videoUrl, assets, subtitleData, files, be>>
  /\ LegUnchanged

\* Step 6: updateVideo({status: "completed", videoUrl, assets, subtitleData});
\* the generation promise resolves and, if the race is still open, wins it.
LegComplete ==
  /\ leg.pc = "complete"
  /\ status' = "completed"
  /\ videoUrl' = "video-id.mp4"
  /\ assets' = [present |-> TRUE, images |-> leg.images,
                scriptSegments |-> <<>>, audioSegments |-> Len(leg.clipDurs)]
  /\ subtitleData' = leg.captions
  /\ leg' = [leg EXCEPT !.pc = "done", !.race = IF @ = "pending" THEN "resolved" ELSE @]
  /\ UNCHANGED <<errorMessage, files, be>>
  /\ LegUnchanged

\* The 10 minute timer fires while the race is open: the race rejects with
\* the timeout error.  Nothing is done to the generation or its subprocess.
LegTimeout ==
  /\ leg.race = "pending"
  /\ leg' = [leg EXCEPT !.race = "timeout", !.timedOut = TRUE, !.firedAt = leg.pc]
  /\ UNCHANGED <<status, errorMessage, videoUrl, assets, subtitleData, files, be>>
  /\ LegUnchanged

\* (mutant) the handler records a generic message.
LegCatchWrite_Generic ==
  /\ leg.race \in {"timeout", "error"}
  /\ status' = "failed"
  /\ errorMessage' = "Unknown error occurred"
  /\ leg' = [leg EXCEPT !.race = "cleanup"]
  /\ UNCHANGED <<videoUrl, assets, subtitleData, files, be>>
  /\ UNCHANGED <<req, gen, cmp, txt, play, ledger, library>>

\* The outer catch: updateVideo({status: "failed", errorMessage}).
LegCatchWrite ==
  /\ leg.race \in {"timeout", "error"}
  /\ status' = "failed"
  /\ errorMessage' = IF leg.race = "timeout" THEN TimeoutMessage ELSE leg.err
  /\ leg' = [leg EXCEPT !.race = "cleanup"]
  /\ UNCHANGED <<videoUrl, assets, subtitleData, files, be>>
  /\ LegUnchanged

\* ... then cleanupTempFiles(tempFiles).
LegCleanup ==
  /\ leg.race = "cleanup"
  /\ files' = files \ leg.tempFiles
  /\ leg' = [leg EXCEPT !.race = "handled"]
  /\ UNCHANGED <<status, errorMessage, videoUrl, assets, subtitleData, be>>
  /\ LegUnchanged

(* ------------------------- text for drawtext --------------------------- *)
\* Texts are sequences of one-character strings.
WordChars == {"a", "H", "e", "s", "i", "d", "W", "o", "w", "c", "r", "p", "t", "_"}
Whitespace == {" ", "\t", "\n"}

\* /[^\w\s\.\!\?\-]/ of the caption cleaner and /[^\w\s\.,!?-]/ of the
\* overlay and topic cleaners.
CaptionAllowed == WordChars \cup Whitespace \cup {".", "!", "?", "-"}
OverlayAllowed == WordChars \cup Whitespace \cup {".", ",", "!", "?", "-"}

\* Limits of the cleaners: captions longer than 55 keep 52 characters and
\* "..."; overlay lines wrap at 40 and two lines are shown; topics are cut
\* at 30 (basic overlay) and 50 (title card).
CaptionMax == 55
CaptionKeep == 52
WrapWidth == 40
DisplayLines == 2
TopicMax == 30
TitleMax == 50

\* s.replace(/[set]/g, '')
RemoveChars(s, set) == SelectSeq(s, LAMBDA c : c \notin set)

\* s.replace(/[^allowed]/g, ' ')
BlankOthers(s, allowed) == [i \in 1..Len(s) |-> IF s[i] \in allowed THEN s[i] ELSE " "]

RECURSIVE TrimLeft(_)
TrimLeft(s) == IF s # <<>> /\ s[1] \in Whitespace THEN TrimLeft(Tail(s)) ELSE s

RECURSIVE TrimRight(_)
TrimRight(s) ==
  IF s # <<>> /\ s[Len(s)] \in Whitespace THEN TrimRight(SubSeq(s, 1, Len(s) - 1)) ELSE s

\* s.trim()
Trim(s) == TrimRight(TrimLeft(s))

\* s.replace(/\s+/g, ' ')
CollapseWhitespace(s) ==
  LET marked == [i \in 1..Len(s) |->
                   IF s[i] \notin Whitespace THEN s[i]
                   ELSE IF i = 1 \/ s[i - 1] \notin Whitespace THEN " " ELSE "drop"]
  IN SelectSeq(marked, LAMBDA c : c # "drop")

\* s.substring(0, n)
Substring(s, n) == SubSeq(s, 1, IF n < Len(s) THEN n ELSE Len(s))

\* (mutant) the caption cleaner without its quote removal.
CleanCaptionText_KeepQuotes(text) ==
  LET blanked == BlankOthers(text, CaptionAllowed \cup {"'", "\""})
      clean == Trim(CollapseWhitespace(blanked))
  IN IF Len(clean) > CaptionMax
       THEN Substring(clean, CaptionKeep) \o <<".", ".", ".">>
       ELSE clean

\* createAdvancedVideo: cleanText of a subtitle segment.
CleanCaptionText(text) ==
  LET unquoted == RemoveChars(text, {"'", "\""})
      blanked == BlankOthers(unquoted, CaptionAllowed)
      clean == Trim(CollapseWhitespace(blanked))
  IN IF Len(clean) > CaptionMax
       THEN Substring(clean, CaptionKeep) \o <<".", ".", ".">>
       ELSE clean

\* createTextOverlayFilter: cleanText of a script segment.
CleanOverlayText(text) ==
  LET collapsed == Trim(CollapseWhitespace(text))
      stripped == RemoveChars(collapsed, {"'", "\"", "\\", ":"})
  IN SelectSeq(stripped, LAMBDA c : c \in OverlayAllowed)

\* String.prototype.split(separator): the parts between the separators.
SplitOn(s, separator) ==
  LET seps == {i \in 1..Len(s) : s[i] = separator}
      pos(k) == CHOOSE i \in seps : Cardinality({j \in seps : j < i}) = k - 1
      first(k) == IF k = 1 THEN 1 ELSE pos(k - 1) + 1
      last(k) == IF k = Cardinality(seps) + 1 THEN Len(s) ELSE pos(k) - 1
  IN [k \in 1..(Cardinality(seps) + 1) |-> SubSeq(s, first(k), last(k))]

\* text.split(' ')
Split(s) == SplitOn(s, " ")

\* wrapText: the loop over the words, then the last line.
RECURSIVE WrapFold(_, _, _, _, _)
WrapFold(words, i, currentLine, lines, maxLength) ==
  IF i > Len(words)
    THEN IF Trim(currentLine) # <<>> THEN Append(lines, Trim(currentLine)) ELSE lines
    ELSE LET word == words[i] IN
      IF Len(Trim(currentLine \o <<" ">> \o word)) > maxLength
        THEN IF Trim(currentLine) # <<>>
               THEN WrapFold(words, i + 1, word, Append(lines, Trim(currentLine)), maxLength)
               ELSE WrapFold(words, i + 1, currentLine, Append(lines, word), maxLength)
        ELSE WrapFold(words, i + 1,
                      currentLine \o (IF currentLine # <<>> THEN <<" ">> ELSE <<>>) \o word,
                      lines, maxLength)

wrapText(text, maxLength) == WrapFold(Split(text), 1, <<>>, <<>>, maxLength)

\* createBasicVideo: safeText of the topic.
SafeTopicText(topic) ==
  LET stripped == RemoveChars(topic, {"'", "\"", "\\", ":"})
  IN Substring(SelectSeq(stripped, LAMBDA c : c \in OverlayAllowed), TopicMax)

\* createTitlePage of the videoProcessor: cleanTopic.
CleanTopicText(topic) == Substring(RemoveChars(topic, {"'", "\""}), TitleMax)

TxtUnchanged ==
  UNCHANGED <<status, errorMessage, videoUrl, assets, subtitleData, req, gen, cmp, files, leg, be, play, ledger, library>>

\* createAdvancedVideo puts cleanText into drawtext=text='...'.
DrawCaption ==
  /\ txt.pc = "input"
  /\ txt' = [txt EXCEPT !.pc = "done", !.sanitizer = "caption",
                        !.output = CleanCaptionText(txt.input),
                        !.lines = <<CleanCaptionText(txt.input)>>]
  /\ TxtUnchanged

\* createTextOverlayFilter draws the first two wrapped lines of cleanText.
DrawOverlay ==
  /\ txt.pc = "input"
  /\ LET clean == CleanOverlayText(txt.input)
         lines == wrapText(clean, WrapWidth)
     IN txt' = [txt EXCEPT !.pc = "done", !.sanitizer = "overlay", !.output = clean,
                           !.lines = SubSeq(lines, 1, IF Len(lines) < DisplayLines
                                                        THEN Len(lines) ELSE DisplayLines)]
  /\ TxtUnchanged

\* createBasicVideo draws safeText.
DrawTopic ==
  /\ txt.pc = "input"
  /\ txt' = [txt EXCEPT !.pc = "done", !.sanitizer = "topic",
                        !.output = SafeTopicText(txt.input),
                        !.lines = <<SafeTopicText(txt.input)>>]
  /\ TxtUnchanged

\* createTitlePage of the videoProcessor draws cleanTopic.
DrawTitleCard ==
  /\ txt.pc = "input"
  /\ txt' = [txt EXCEPT !.pc = "done", !.sanitizer = "titleCard",
                        !.output = CleanTopicText(txt.input),
                        !.lines = <<CleanTopicText(txt.input)>>]
  /\ TxtUnchanged

\* createTitlePage of the simple processor draws the topic as it is.
DrawTitlePage ==
  /\ txt.pc = "input"
  /\ txt' = [txt EXCEPT !.pc = "done", !.sanitizer = "titlePage",
                        !.output = txt.input, !.lines = <<txt.input>>]
  /\ TxtUnchanged

(* ----------------------- showing captions and images ------------------- *)
\* In this section a time is a whole number of ticks of 1/300 s.  The frame
\* periods of the renderers and the hundredths kept by toFixed(2) are whole
\* numbers of ticks, and half a hundredth is not, so rounding meets no tie.
CentiTicks == 3
DrawFrameTicks == 12
RemotionFrameTicks == 10

\* Number.prototype.toFixed(2), read back by FFmpeg's expression parser.
ToFixed2(x) == CentiTicks * ((2 * x + CentiTicks) \div (2 * CentiTicks))

\* (mutant) the running time advances by the rounded duration.
RECURSIVE OverlayFold_RoundEach(_, _, _)
OverlayFold_RoundEach(segments, index, currentTime) ==
  IF index > Len(segments)
    THEN <<>>
    ELSE <<[startTime |-> ToFixed2(currentTime),
            endTime |-> ToFixed2(currentTime + segments[index].duration)]>>
         \o OverlayFold_RoundEach(segments, index + 1,
                                  currentTime + ToFixed2(segments[index].duration))

\* createAdvancedVideo: the loop over subtitles.segments that writes one
\* drawtext filter per segment, enable='between(t,startTime,endTime)'.
RECURSIVE OverlayFold(_, _, _)
OverlayFold(segments, index, currentTime) ==
  IF index > Len(segments)
    THEN <<>>
    ELSE <<[startTime |-> ToFixed2(currentTime),
            endTime |-> ToFixed2(currentTime + segments[index].duration)]>>
         \o OverlayFold(segments, index + 1, currentTime + segments[index].duration)

\* VideoComposition / createRevideoProjectCode: segment index starts where the
\* durations of the segments before it end.
RECURSIVE SegmentFold(_, _, _)
SegmentFold(script, index, frameOffset) ==
  IF index > Len(script)
    THEN <<>>
    ELSE <<[startTime |-> frameOffset, endTime |-> frameOffset + script[index]]>>
         \o SegmentFold(script, index + 1, frameOffset + script[index])

\* VideoPlayer reads startTime and endTime of subtitleData.segments as stored.
StoredWindows(segments) ==
  [i \in 1..Len(segments) |->
     [startTime |-> segments[i].startTime, endTime |-> segments[i].endTime]]

Compose(renderer, windows) ==
  /\ play.pc = "ready"
  /\ play' = [play EXCEPT !.pc = "composed", !.renderer = renderer, !.windows = windows]
  /\ UNCHANGED <<status, errorMessage, videoUrl, assets, subtitleData, req, gen, cmp,
                 files, leg, be, txt, ledger, library>>

PlayerLoad == Compose("player", StoredWindows(play.captions))

DrawtextCompose == Compose("drawtext", OverlayFold(play.captions, 1, 0))

RemotionCompose == Compose("remotion", SegmentFold(play.durs, 1, 0))

RevideoCompose == Compose("revideo", SegmentFold(play.durs, 1, 0))

\* createVideoWithRevideo: the catch around the Revideo render hands the same
\* assets and subtitleData to the enhanced backend.
RevideoFallback ==
  /\ play.pc = "composed"
  /\ play.renderer = "revideo"
  /\ play' = [play EXCEPT !.renderer = "drawtext", !.fallback = TRUE,
                          !.windows = OverlayFold(play.captions, 1, 0)]
  /\ UNCHANGED <<status, errorMessage, videoUrl, assets, subtitleData, req, gen, cmp,
                 files, leg, be, txt, ledger, library>>

ShowFrame(renderer, t, subtitlesEnabled, visible, image) ==
  /\ play.pc \in {"composed", "shown"}
  /\ play.renderer = renderer
  /\ play' = [play EXCEPT !.pc = "shown", !.t = t,
                           !.subtitlesEnabled = subtitlesEnabled,
                           !.visible = visible, !.image = image]
  /\ UNCHANGED <<status, errorMessage, videoUrl, assets, subtitleData, req, gen, cmp,
                 files, leg, be, txt, ledger, library>>

\* Array.prototype.find: the first index whose element satisfies the test.
FindFirst(S) == IF S = {} THEN {} ELSE {CHOOSE i \in S : \A j \in S : i <= j}

\* VideoPlayer: the effect on [currentTime, subtitlesEnabled, subtitleData].
PlayerTimeUpdate ==
  \E currentTime \in 0..SumSeq(play.durs), subtitlesEnabled \in BOOLEAN :
    ShowFrame("player", currentTime, subtitlesEnabled,
              IF subtitlesEnabled
                THEN FindFirst({i \in 1..Len(play.windows) :
                                  /\ currentTime >= play.windows[i].startTime
                                  /\ currentTime <= play.windows[i].endTime})
                ELSE {},
              0)

\* FFmpeg evaluating the drawtext chain on one output frame: between(t, a, b)
\* is 1 when a <= t <= b; the output ends with the audio.  The pictures under
\* the text are laid out by ImageSlots; this action is about the text only.
DrawtextFrame ==
  \E n \in 0..((SumSeq(play.durs) - 1) \div DrawFrameTicks) :
    LET t == n * DrawFrameTicks IN
    ShowFrame("drawtext", t, TRUE,
              {i \in 1..Len(play.windows) :
                 play.windows[i].startTime <= t /\ t <= play.windows[i].endTime},
              0)

\* VideoComposition on one frame of the durationInFrames frames.
RemotionFrame ==
  \E frame \in 0..(((SumSeq(play.durs) + RemotionFrameTicks - 1) \div RemotionFrameTicks) - 1) :
    LET t == frame * RemotionFrameTicks
        hit == FindFirst({i \in 1..Len(play.durs) :
                            t >= play.windows[i].startTime /\ t < play.windows[i].endTime})
        currentSegmentIndex == IF hit = {} THEN 1 ELSE CHOOSE i \in hit : TRUE
    IN ShowFrame("remotion", t, TRUE,
                 {i \in 1..Len(play.windows) :
                    t >= play.windows[i].startTime /\ t < play.windows[i].endTime},
                 Min(currentSegmentIndex, play.images))

\* The Revideo scene on one frame: image and text of segment index are in the
\* view from the end of the segment before it for segment.duration.
RevideoFrame ==
  \E frame \in 0..(((SumSeq(play.durs) + RemotionFrameTicks - 1) \div RemotionFrameTicks) - 1) :
    LET t == frame * RemotionFrameTicks
        inView == {i \in 1..Len(play.windows) :
                     t >= play.windows[i].startTime /\ t < play.windows[i].endTime}
    IN /\ inView # {}
       /\ ShowFrame("revideo", t, TRUE, inView, Min(CHOOSE i \in inView : TRUE, play.images))

(* --------------------------- effect presets ---------------------------- *)
kenBurnsEffects == <<"zoom_in", "zoom_out", "pan_right", "pan_left", "stable">>

getKenBurnsEffect(index) == kenBurnsEffects[(index % Len(kenBurnsEffects)) + 1]

SimpleEffects == <<"scale=1.1*iw:1.1*ih", "scale=1920:1080", "scale=1.05*iw:1.05*ih">>

\* (mutant) indexes past the last preset all get the last preset.
getSimpleEffect_Clamped(index) == SimpleEffects[Min(index, Len(SimpleEffects) - 1) + 1]

getSimpleEffect(index) == SimpleEffects[(index % Len(SimpleEffects)) + 1]

zoomEffects == <<"scale=1.05*iw:1.05*ih", "scale=1920:1080", "scale=1.03*iw:1.03*ih">>

DigitChars == <<"0", "1", "2", "3", "4", "5", "6", "7", "8", "9">>

\* A non-negative integer in a template literal: its decimal digits.
RECURSIVE DecimalString(_)
DecimalString(i) ==
  IF i < 10 THEN <<DigitChars[i + 1]>>
            ELSE Append(DecimalString(i \div 10), DigitChars[(i % 10) + 1])

\* `segment_${i}.mp4`
SegmentFileName(i) ==
  <<"s", "e", "g", "m", "e", "n", "t", "_">> \o DecimalString(i) \o <<".", "m", "p", "4">>

DigitValue(c) == CHOOSE v \in 0..9 : DigitChars[v + 1] = c

\* parseInt: the value of the leading decimal digits; -1 stands for NaN.
RECURSIVE ParseIntFold(_, _, _)
ParseIntFold(s, i, value) ==
  IF i > Len(s) \/ s[i] \notin {DigitChars[k] : k \in 1..10}
    THEN IF i = 1 THEN -1 ELSE value
    ELSE ParseIntFold(s, i + 1, 10 * value + DigitValue(s[i]))

ParseInt(s) == ParseIntFold(s, 1, 0)

\* createVideoSegment: the index is read back from the output file's name;
\* zoomEffects[NaN] is undefined.
SegmentEffectOf(outputPath) ==
  LET segmentIndex == ParseInt(SplitOn(outputPath, "_")[2])
  IN IF segmentIndex < 0 THEN "undefined"
                         ELSE zoomEffects[(segmentIndex % Len(zoomEffects)) + 1]

AssignEffect(of, index, preset) ==
  /\ play.pc = "effects"
  /\ play' = [play EXCEPT !.prevEffect = play.effect,
                          !.effect = [of |-> of, index |-> index, preset |-> preset]]
  /\ UNCHANGED <<status, errorMessage, videoUrl, assets, subtitleData, req, gen, cmp,
                 files, leg, be, txt, ledger, library>>

\* The processors call their selector for the image at position index.
KenBurnsEffect == \E index \in 0..MaxIndex : AssignEffect("kenBurns", index, getKenBurnsEffect(index))

SimpleEffect == \E index \in 0..MaxIndex : AssignEffect("simple", index, getSimpleEffect(index))

SegmentEffect ==
  \E i \in 0..MaxIndex : AssignEffect("segment", i, SegmentEffectOf(SegmentFileName(i)))

(* ------------------------- credits of the user ------------------------- *)
LedgerUnchanged ==
  UNCHANGED <<errorMessage, videoUrl, assets, subtitleData, req, gen, cmp, files, leg, be,
              txt, play, library>>

\* POST /api/videos/:id/generate: the status check (400 unless pending).
CreditStatusCheck(r) ==
  /\ ledger.pc[r] = "idle"
  /\ ledger' = [ledger EXCEPT !.pc[r] = IF status = "pending" THEN "pending" ELSE "rejected"]
  /\ UNCHANGED status
  /\ LedgerUnchanged

\* ... the route reads the user and compares the credits with creditsNeeded
\* (402 Insufficient credits).
CreditRouteCheck(r) ==
  /\ ledger.pc[r] = "pending"
  /\ ledger' = [ledger EXCEPT !.pc[r] = IF ledger.credits < ledger.cost
                                          THEN "refused" ELSE "sufficient"]
  /\ UNCHANGED status
  /\ LedgerUnchanged

\* deductCreditsForVideo: getUser and the comparison, before the transaction.
LedgerCheck(r) ==
  /\ ledger.pc[r] = "sufficient"
  /\ ledger' = [ledger EXCEPT !.pc[r] = IF ledger.credits < ledger.cost
                                          THEN "refused" ELSE "confirmed"]
  /\ UNCHANGED status
  /\ LedgerUnchanged

\* ... the transaction: credits := credits - creditsToDeduct, creditsUsed and
\* the usage record; when it throws nothing is written and the route answers
\* 402.
LedgerDeduct(r) ==
  /\ ledger.pc[r] = "confirmed"
  /\ \/ ledger' = [ledger EXCEPT !.pc[r] = "deducted",
                                 !.credits = @ - ledger.cost,
                                 !.charged = @ + ledger.cost]
     \/ ledger' = [ledger EXCEPT !.pc[r] = "refused"]
  /\ UNCHANGED status
  /\ LedgerUnchanged

\* ... status := generating and generateScriptAndImages is started.
CreditStart(r) ==
  /\ ledger.pc[r] = "deducted"
  /\ status' = "generating"
  /\ ledger' = [ledger EXCEPT !.pc[r] = "started"]
  /\ LedgerUnchanged

(* --------------------- regeneration of one image ----------------------- *)
\* POST /api/videos/:id/regenerate-image/:imageIndex.  The ledger holds, for
\* every request, the image asked for, its price, the image list the route read
\* with the job, the URL the provider returned, and what the request has paid
\* and got back.  URLs are numbers: OriginalUrl is the URL of every image
\* before the requests, EmptyUrl the empty string, NewUrl(r) the URL of the
\* image made for request r.
RunwareImageCost == 1
DalleImageCost == 5
EmptyUrl == 0
OriginalUrl == 1
NewUrl(r) == OriginalUrl + r

\* ... the job is read, the index is checked against the script segments and
\* imageCost is 1 for runware, 5 otherwise.
RegenRead(r) ==
  /\ ledger.pc[r] = "idle"
  /\ assets.present
  /\ \E imageIndex \in 1..Len(assets.scriptSegments), selectedProvider \in {"dalle", "runware"} :
       ledger' = [ledger EXCEPT !.pc[r] = "read",
                                !.index[r] = imageIndex,
                                !.provider[r] = selectedProvider,
                                !.price[r] = IF selectedProvider = "runware"
                                               THEN RunwareImageCost ELSE DalleImageCost,
                                !.seen[r] = assets.images]
  /\ UNCHANGED status
  /\ LedgerUnchanged

\* ... the route reads the user and compares the credits with imageCost (402
\* Insufficient credits).
RegenRouteCheck(r) ==
  /\ ledger.pc[r] = "read"
  /\ ledger' = [ledger EXCEPT !.pc[r] = IF ledger.credits < ledger.price[r]
                                          THEN "refused" ELSE "sufficient"]
  /\ UNCHANGED status
  /\ LedgerUnchanged

\* deductCredits: getUser and the comparison, before the transaction.
RegenDeductCheck(r) ==
  /\ ledger.pc[r] = "sufficient"
  /\ ledger' = [ledger EXCEPT !.pc[r] = IF ledger.credits < ledger.price[r]
                                          THEN "refused" ELSE "confirmed"]
  /\ UNCHANGED status
  /\ LedgerUnchanged

\* ... the transaction: credits := credits - imageCost and the debit record;
\* when it throws nothing is written, false is returned and the route answers
\* 402.
RegenDeduct(r) ==
  /\ ledger.pc[r] = "confirmed"
  /\ \/ ledger' = [ledger EXCEPT !.pc[r] = "deducted",
                                 !.credits = @ - ledger.price[r],
                                 !.paid[r] = ledger.price[r]]
     \/ ledger' = [ledger EXCEPT !.pc[r] = "refused"]
  /\ UNCHANGED status
  /\ LedgerUnchanged

\* generateImage / generateImageWithRunware return a URL.  generateImage
\* returns the empty string when the answer holds no URL; the runware call
\* throws in that case.
RegenGenerateOk(r) ==
  /\ ledger.pc[r] = "deducted"
  /\ \E url \in IF ledger.provider[r] = "dalle" THEN {NewUrl(r), EmptyUrl} ELSE {NewUrl(r)} :
       ledger' = [ledger EXCEPT !.pc[r] = "generated", !.url[r] = url]
  /\ UNCHANGED status
  /\ LedgerUnchanged

\* ... or throw: the route's inner catch is entered.
RegenGenerateFail(r) ==
  /\ ledger.pc[r] = "deducted"
  /\ ledger' = [ledger EXCEPT !.pc[r] = "caught"]
  /\ UNCHANGED status
  /\ LedgerUnchanged

\* updateVideo({assets: {...assets, images: updatedImages}}): the list read
\* with the job, with the new URL at imageIndex, replaces the stored list.
RegenUpdateOk(r) ==
  /\ ledger.pc[r] = "generated"
  /\ assets' = [assets EXCEPT !.images = [ledger.seen[r] EXCEPT ![ledger.index[r]] = ledger.url[r]]]
  /\ ledger' = [ledger EXCEPT !.pc[r] = "done"]
  /\ UNCHANGED <<status, errorMessage, videoUrl, subtitleData, req, gen, cmp, files, leg, be,
                 txt, play, library>>

\* ... or updateVideo throws and nothing is stored.
RegenUpdateFail(r) ==
  /\ ledger.pc[r] = "generated"
  /\ ledger' = [ledger EXCEPT !.pc[r] = "caught"]
  /\ UNCHANGED status
  /\ LedgerUnchanged

\* The inner catch awaits addCredits(userId, imageCost) and rethrows; the
\* outer catch answers 500.  addCredits commits credits := credits + imageCost
\* and the credit record in one transaction; when the transaction throws it
\* logs and returns false, and the route does not look at the result.
RegenRefund(r) ==
  /\ ledger.pc[r] = "caught"
  /\ \/ ledger' = [ledger EXCEPT !.pc[r] = "error",
                                 !.credits = @ + ledger.price[r],
                                 !.refunded[r] = ledger.price[r]]
     \/ ledger' = [ledger EXCEPT !.pc[r] = "error"]
  /\ UNCHANGED status
  /\ LedgerUnchanged

(* ------------------------- script generation --------------------------- *)
\* A text is held as the sequence of its phrases; includes(word) looks for the
\* word among them.
Includes(text, word) == \E i \in 1..Len(text) : text[i] = word

RECURSIVE JoinWords(_)
JoinWords(text) ==
  IF Len(text) = 0 THEN ""
  ELSE IF Len(text) = 1 THEN text[1]
  ELSE text[1] \o " " \o JoinWords(Tail(text))

SegmentSeconds == 15
MinSegments == 2
TemplateSegments == 4

Max(a, b) == IF a > b THEN a ELSE b

\* generateFallbackScript: the template is picked by the topic's keywords.
FallbackTemplate(topic) ==
  IF Includes(topic, "photosynthesis") \/ Includes(topic, "plant food")
        \/ Includes(topic, "chlorophyll")
  THEN "photosynthesis"
  ELSE IF Includes(topic, "water cycle") \/ Includes(topic, "evaporation")
             \/ Includes(topic, "precipitation")
  THEN "water"
  ELSE IF Includes(topic, "plant") \/ Includes(topic, "grow") \/ Includes(topic, "seed")
  THEN "plants"
  ELSE "generic"

\* ... segmentsCount segments are requested, the template holds
\* TemplateSegments; each gets timePerSegment = duration / segmentsCount.
generateFallbackScript(topic, duration) ==
  LET segmentsCount == Max(MinSegments, duration \div SegmentSeconds)
      timePerSegment == duration \div segmentsCount
      template == FallbackTemplate(topic)
  IN [index \in 1..Min(segmentsCount, TemplateSegments) |->
        [text |-> <<template, "text", index>>,
         imagePrompt |-> <<template, "imagePrompt", index>>,
         startTime |-> (index - 1) * timePerSegment,
         endTime |-> index * timePerSegment,
         duration |-> timePerSegment]]

\* What the call of the script generator can end with: the segments of the
\* model's answer, or an error whose message generateScript prefixes.
ScriptAnswers ==
  {[index \in 1..n |-> [text |-> <<"answer", "text", index>>,
                        imagePrompt |-> <<"answer", "imagePrompt", index>>,
                        duration |-> SegmentSeconds]] : n \in 1..MaxSegs}

ApiErrors ==
  [quota |-> <<"429", "You exceeded your current", "quota", "please check your plan">>,
   rate_limit |-> <<"429", "Rate limit reached for", "gpt-4o", "on requests per min">>,
   timeout |-> <<"Script generation timed out after 2 minutes">>,
   connection |-> <<"Connection error.">>]

generateScriptError(cause) == <<"Failed to generate script:">> \o ApiErrors[cause]

\* Step 1 of generateScriptAndImages: generateScript, and the catch around it.
ScriptStep ==
  /\ gen.pc = "script"
  /\ \/ \E answer \in ScriptAnswers :
          gen' = [gen EXCEPT !.pc = "images", !.segs = answer, !.source = "openai"]
     \/ \E cause \in DOMAIN ApiErrors :
          LET message == generateScriptError(cause)
          IN IF Includes(message, "quota")
             THEN gen' = [gen EXCEPT !.pc = "images", !.cause = cause,
                                     !.source = "fallback",
                                     !.segs = generateFallbackScript(gen.topic, gen.duration)]
             ELSE gen' = [gen EXCEPT !.pc = "catch", !.cause = cause, !.err = JoinWords(message)]
  /\ UNCHANGED <<status, errorMessage, videoUrl, assets, subtitleData, files>>
  /\ GenUnchanged

(* ------------------------- text overlay style ------------------------- *)
\* AVAILABLE_FONTS: font key -> font file.
AVAILABLE_FONTS ==
  [dejavu_sans_bold |-> "DejaVuSans-Bold.ttf", dejavu_sans |-> "DejaVuSans.ttf",
   dejavu_serif_bold |-> "DejaVuSerif-Bold.ttf", dejavu_serif |-> "DejaVuSerif.ttf",
   dejavu_impact |-> "DejaVuSans-Bold.ttf", dejavu_bubbly |-> "DejaVuSans.ttf",
   dejavu_scary |-> "DejaVuSerif.ttf", dejavu_elegant |-> "DejaVuSerif-Bold.ttf",
   dejavu_mono_bold |-> "DejaVuSansMono-Bold.ttf", dejavu_mono |-> "DejaVuSansMono.ttf"]

\* getFontPath: AVAILABLE_FONTS[fontKey]?.path || AVAILABLE_FONTS["dejavu-sans-bold"].path
getFontPath(fontKey) ==
  IF fontKey \in DOMAIN AVAILABLE_FONTS THEN AVAILABLE_FONTS[fontKey]
  ELSE AVAILABLE_FONTS["dejavu_sans_bold"]

\* colorMap of createTextOverlayFilter: color key -> FFmpeg color.
colorMap ==
  [yellow |-> "yellow", white |-> "white", red |-> "red", cyan |-> "cyan", lime |-> "lime",
   orange |-> "orange", gold |-> "#FFD700", hotpink |-> "#FF69B4", purple |-> "purple",
   silver |-> "#C0C0C0"]

\* value || fallback: an absent or empty value takes the fallback.
OrDefault(value, fallback) == IF value \in {"undefined", ""} THEN fallback ELSE value

\* The windows of the captions, each starting where the previous one ends.
CaptionStart(segments, i) == SumSeq([k \in 1..(i - 1) |-> segments[k].duration])

Drawtext(fontfile, fontcolor, segments, i) ==
  [fontfile |-> fontfile, fontcolor |-> fontcolor, text |-> segments[i].text,
   startTime |-> CaptionStart(segments, i),
   endTime |-> CaptionStart(segments, i) + segments[i].duration]

StyleUnchanged ==
  UNCHANGED <<status, errorMessage, videoUrl, assets, subtitleData, req, gen, cmp, files,
              leg, txt, play, ledger, library>>

\* createTextOverlayFilter: one drawtext per caption with a text, in the
\* looked-up font and color; '' when there is nothing to draw.
TextOverlayFilter ==
  /\ be.pc = "style" /\ be.strategy = "textOverlay"
  /\ LET segments == be.subtitles.segments
         textFont == IF be.textFont = "undefined" THEN "dejavu_sans_bold" ELSE be.textFont
         textColor == IF be.textColor = "undefined" THEN "yellow" ELSE be.textColor
         ffmpegColor == IF textColor \in DOMAIN colorMap THEN colorMap[textColor] ELSE "yellow"
         shown == SelectSeq([i \in 1..Len(segments) |-> i], LAMBDA i : segments[i].text # "")
     IN be' = [be EXCEPT !.pc = "styled",
                         !.overlay = IF be.subtitles.enabled
                                     THEN [k \in 1..Len(shown) |->
                                             Drawtext(getFontPath(textFont), ffmpegColor,
                                                      segments, shown[k])]
                                     ELSE <<>>,
                         !.map = "none"]
  /\ StyleUnchanged

\* createAdvancedVideo: the timed text overlays of the enhanced processor.
EnhTextOverlay ==
  /\ be.pc = "style" /\ be.strategy = "enhanced"
  /\ LET segments == be.subtitles.segments
         textColor == OrDefault(be.textColor, "yellow")
     IN IF be.subtitles.enabled /\ Len(segments) > 0
        THEN be' = [be EXCEPT !.pc = "styled", !.map = "[final]",
                              !.overlay = [i \in 1..Len(segments) |->
                                             Drawtext("DejaVuSans-Bold.ttf", textColor,
                                                      segments, i)]]
        ELSE be' = [be EXCEPT !.pc = "styled", !.map = "[video]", !.overlay = <<>>]
  /\ StyleUnchanged

\* createBasicVideo: the topic drawn over the whole video.
BasicTextOverlay ==
  /\ be.pc = "style" /\ be.strategy = "basic"
  /\ LET segments == be.subtitles.segments
         textColor == OrDefault(be.textColor, "yellow")
     IN IF be.subtitles.enabled /\ Len(segments) > 0
        THEN be' = [be EXCEPT !.pc = "styled", !.map = "[outv]",
                              !.overlay = <<[fontfile |-> "DejaVuSans-Bold.ttf",
                                             fontcolor |-> textColor, text |-> "topic",
                                             startTime |-> 0,
                                             endTime |-> CaptionStart(segments, Len(segments) + 1)]>>]
        ELSE be' = [be EXCEPT !.pc = "styled", !.map = "[outv]", !.overlay = <<>>]
  /\ StyleUnchanged

\* createVideoWithRemotion and VideoComposition: every script segment is
\* drawn in the given color; the subtitle data is not passed on.
RemotionTextOverlay ==
  /\ be.pc = "style" /\ be.strategy = "remotion"
  /\ LET segments == be.subtitles.segments
         textColor == OrDefault(be.textColor, "yellow")
         textFont == OrDefault(be.textFont, "Arial")
         fontFamily == IF textFont = "dejavu_sans_bold" THEN "DejaVu Sans, sans-serif"
                       ELSE "Arial, sans-serif"
     IN be' = [be EXCEPT !.pc = "styled", !.map = "none",
                         !.overlay = [i \in 1..Len(segments) |->
                                        Drawtext(fontFamily, textColor, segments, i)]]
  /\ StyleUnchanged

\* createVideoWithRevideo and createRevideoProject: every script segment is a
\* Txt node filled with the given color.
RevideoTextOverlay ==
  /\ be.pc = "style" /\ be.strategy = "revideo"
  /\ LET segments == be.subtitles.segments
         textColor == OrDefault(be.textColor, "yellow")
     IN be' = [be EXCEPT !.pc = "styled", !.map = "none",
                         !.overlay = [i \in 1..Len(segments) |->
                                        Drawtext("Arial, sans-serif", textColor, segments, i)]]
  /\ StyleUnchanged

(* ------------------------- stored videos of a user -------------------- *)
\* A stored video is known by its createdAt stamp; library.clock is the time.
maxVideos == 10

LibraryUnchanged ==
  UNCHANGED <<status, errorMessage, videoUrl, assets, subtitleData, req, gen, cmp, files,
              leg, be, txt, play, ledger>>

\* userVideos ordered by createdAt descending, and slice(maxVideos - 1) of it
\* when the user has reached the limit.
VideosToDelete(videos) ==
  IF Cardinality(videos) >= maxVideos
  THEN {v \in videos : Cardinality({w \in videos : w > v}) >= maxVideos - 1}
  ELSE {}

\* MemStorage.createVideo: the limit is enforced and the video is stored
\* without another request running in between.
MemCreateVideo(r) ==
  /\ library.storage = "mem" /\ library.pc[r] = "idle"
  /\ library' = [library EXCEPT
                   !.videos = (@ \ VideosToDelete(@)) \cup {library.clock + 1},
                   !.clock = @ + 1, !.pc[r] = "created"]
  /\ LibraryUnchanged

\* DatabaseStorage.enforceVideoLimit: the select of the user's videos.
EnforceSelect(r) ==
  /\ library.storage = "database" /\ library.pc[r] = "idle"
  /\ library' = [library EXCEPT !.pc[r] = "enforcing",
                                !.todo[r] = VideosToDelete(library.videos)]
  /\ LibraryUnchanged

\* ... one deleteVideo after the other, the oldest last.
EnforceDelete(r) ==
  /\ library.pc[r] = "enforcing" /\ library.todo[r] # {}
  /\ LET video == CHOOSE v \in library.todo[r] : \A w \in library.todo[r] : w <= v
     IN library' = [library EXCEPT !.videos = @ \ {video}, !.todo[r] = @ \ {video}]
  /\ LibraryUnchanged

\* DatabaseStorage.createVideo: the insert, once the limit has been enforced.
InsertVideo(r) ==
  /\ library.pc[r] = "enforcing" /\ library.todo[r] = {}
  /\ library' = [library EXCEPT !.videos = @ \cup {library.clock + 1},
                                !.clock = @ + 1, !.pc[r] = "created"]
  /\ LibraryUnchanged

(* ------------------------- subtitle lines ------------------------------ *)
\* A text is held as the lengths of the words text.split(' ') returns: the
\* empty text is the one word of length 0.
LineLimit == 60

\* words.forEach(...): currentLine grows while it fits LineLimit, otherwise it
\* is pushed (unless empty) and the word starts the next line.
RECURSIVE LinesFold(_, _, _)
LinesFold(words, k, currentLine) ==
  IF k > Len(words)
  THEN IF currentLine > 0 THEN <<currentLine>> ELSE <<>>
  ELSE IF currentLine + 1 + words[k] <= LineLimit
       THEN LinesFold(words, k + 1,
                     IF currentLine > 0 THEN currentLine + 1 + words[k] ELSE words[k])
       ELSE (IF currentLine > 0 THEN <<currentLine>> ELSE <<>>)
              \o LinesFold(words, k + 1, words[k])

SubtitleLines(words) == LinesFold(words, 1, 0)

\* scriptSegments.forEach(...): lineDuration = duration / lines.length, one
\* entry per line, currentTime moves on by lineDuration per entry.
RECURSIVE SubtitleSegmentsFold(_, _, _)
SubtitleSegmentsFold(scriptSegments, i, currentTime) ==
  IF i > Len(scriptSegments) THEN <<>>
  ELSE LET lines == SubtitleLines(scriptSegments[i].words)
           lineDuration == IF Len(lines) = 0 THEN 0
                           ELSE scriptSegments[i].duration \div Len(lines)
       IN [j \in 1..Len(lines) |->
             [startTime |-> currentTime + (j - 1) * lineDuration,
              endTime |-> currentTime + j * lineDuration,
              text |-> lines[j]]]
          \o SubtitleSegmentsFold(scriptSegments, i + 1,
                                  currentTime + Len(lines) * lineDuration)

createSubtitleSegments(scriptSegments, startTime) ==
  SubtitleSegmentsFold(scriptSegments, 1, startTime)

CreateSubtitleSegments ==
  /\ play.pc = "segments"
  /\ play' = [play EXCEPT !.pc = "segmented",
                          !.windows = createSubtitleSegments(play.captions, play.t)]
  /\ UNCHANGED <<status, errorMessage, videoUrl, assets, subtitleData, req, gen, cmp,
                 files, leg, be, txt, ledger, library>>

(* ------------------------- cost of a video ----------------------------- *)
\* VIDEO_COSTS.BASE_COSTS and VIDEO_COSTS.DURATION_MULTIPLIERS.
BASE_COSTS ==
  [SCRIPT_GENERATION |-> 4, TTS_PER_MINUTE |-> 5, DALLE3_STANDARD |-> 40, DALLE3_HD |-> 60,
   RUNWARE_FLUX |-> 2, VIDEO_PROCESSING |-> 2]

DURATION_MULTIPLIERS == (20 :> 1) @@ (30 :> 1) @@ (60 :> 2) @@ (90 :> 3) @@ (120 :> 4) @@ (180 :> 6)

\* Math.ceil(a / b) for positive b.
CeilDiv(a, b) == (a + b - 1) \div b

\* A multiplier is held as the fraction <<numerator, denominator>>.
TableMultiplier(duration, fallback) ==
  IF duration \in DOMAIN DURATION_MULTIPLIERS THEN <<DURATION_MULTIPLIERS[duration], 1>>
  ELSE fallback

\* calculateVideoCredits of the shared utility: the total of the breakdown.
calculateVideoCredits(config) ==
  LET scriptGeneration == BASE_COSTS.SCRIPT_GENERATION
      textToSpeech == CeilDiv(config.duration, 60) * BASE_COSTS.TTS_PER_MINUTE
      imageCount == CeilDiv(config.duration, 20)
      imageGeneration ==
        IF config.imageProvider = "dalle"
        THEN imageCount * (IF config.imageStyle = "hd" THEN BASE_COSTS.DALLE3_HD
                           ELSE BASE_COSTS.DALLE3_STANDARD)
        ELSE IF config.imageProvider = "runware" THEN imageCount * BASE_COSTS.RUNWARE_FLUX
        ELSE 0
      videoProcessing == BASE_COSTS.VIDEO_PROCESSING
      durationMultiplier ==
        TableMultiplier(config.duration,
                        IF config.duration < 20 THEN <<1, 1>> ELSE <<config.duration, 20>>)
      baseTotal == scriptGeneration + textToSpeech + imageGeneration + videoProcessing
      total == CeilDiv(baseTotal * durationMultiplier[1], durationMultiplier[2])
  IN Max(total, 1)

\* (mutant) the storage layer prices its default of three images.
storageCalculateVideoCredits_ThreeImages(duration, imageProvider, imageCount) ==
  LET baseCredits == BASE_COSTS.SCRIPT_GENERATION
      ttsCredits == CeilDiv(duration, 60) * BASE_COSTS.TTS_PER_MINUTE
      imageCredits ==
        IF imageProvider = "dalle" THEN 3 * BASE_COSTS.DALLE3_STANDARD
        ELSE IF imageProvider = "runware" THEN 3 * BASE_COSTS.RUNWARE_FLUX
        ELSE 0
      processingCredits == BASE_COSTS.VIDEO_PROCESSING
      durationMultiplier == TableMultiplier(duration, <<duration, 20>>)
      totalCredits == CeilDiv((baseCredits + ttsCredits + imageCredits + processingCredits)
                                * durationMultiplier[1], durationMultiplier[2])
  IN Max(totalCredits, 1)

\* DatabaseStorage.calculateVideoCredits
storageCalculateVideoCredits(duration, imageProvider, imageCount) ==
  LET baseCredits == BASE_COSTS.SCRIPT_GENERATION
      ttsCredits == CeilDiv(duration, 60) * BASE_COSTS.TTS_PER_MINUTE
      imageCredits ==
        IF imageProvider = "dalle" THEN imageCount * BASE_COSTS.DALLE3_STANDARD
        ELSE IF imageProvider = "runware" THEN imageCount * BASE_COSTS.RUNWARE_FLUX
        ELSE 0
      processingCredits == BASE_COSTS.VIDEO_PROCESSING
      durationMultiplier == TableMultiplier(duration, <<duration, 20>>)
      totalCredits == CeilDiv((baseCredits + ttsCredits + imageCredits + processingCredits)
                                * durationMultiplier[1], durationMultiplier[2])
  IN Max(totalCredits, 1)

\* The cost shown by the shared utility, and the cost the generate route
\* charges: storage.calculateVideoCredits with imageCount = ceil(duration / 20).
CalculateCost ==
  /\ ledger.quote.pc = "asked"
  /\ LET q == ledger.quote
     IN ledger' = [ledger EXCEPT
          !.quote.pc = "quoted",
          !.quote.shown = calculateVideoCredits(q),
          !.quote.charged = storageCalculateVideoCredits(q.duration, q.imageProvider,
                                                         CeilDiv(q.duration, 20))]
  /\ UNCHANGED status
  /\ LedgerUnchanged

(* ------------------------------ specification -------------------------- *)
Next ==
  \/ GenerateCheck \/ GenerateRefused \/ GenerateStart
  \/ UpdateScript \/ RegenerateImages
  \/ CompileCheck \/ CompileStart
  \/ RetryCheck \/ RetryReset
  \/ GenScriptOk \/ GenScriptFail \/ GenImageOk \/ GenImageFail
  \/ GenPreview \/ GenSave \/ GenCatch \/ GenRouteCatch
  \/ CmpSetCompiling \/ CmpLoad \/ CmpAudioOk \/ CmpAudioFail \/ CmpProbe
  \/ CmpDownloadOk \/ CmpDownloadFail \/ CmpCaptions
  \/ CmpRenderReturn \/ CmpComplete \/ CmpCatch \/ CmpRouteCatch
  \/ RemotionConcatOk \/ RemotionConcatFail \/ RemotionRenderOk \/ RemotionRenderFail
  \/ RemotionAddAudioOk \/ RemotionAddAudioFail

Spec == Init /\ [][Next]_vars

\* The single-pass pipeline with the enhanced FFmpeg backend.
NextLegacy ==
  \/ LegStart \/ LegScriptOk \/ LegScriptFail \/ LegImageOk \/ LegImageFail
  \/ LegAudioOk \/ LegAudioFail \/ LegRenderStart \/ LegRenderReturn \/ LegProbe
  \/ LegComplete \/ LegTimeout \/ LegCatchWrite \/ LegCleanup
  \/ EnhAudioSpawn \/ EnhAudioExit \/ EnhVideoSpawn \/ EnhVideoExit

SpecLegacy == Init /\ [][NextLegacy]_vars

\* One call of a render backend with the clips in place and at most one image
\* file absent: clips longer than the title card, the total duration being
\* the clips' sum.  createVideoWithRemotion has written its list file.
BackendStrategies == {"enhanced", "basic", "videoProcessor", "revideo", "remotion"}
ClipDurations == {TitleDuration + d : d \in 1..MaxDur}
BackendInputs == UNION {[1..n -> ClipDurations] : n \in 0..MaxSegs}

InitBackend ==
  /\ status = "pending"
  /\ errorMessage = "null"
  /\ videoUrl = "null"
  /\ assets = NoAssets
  /\ subtitleData = <<>>
  /\ req = IdleReq
  /\ gen = IdleGen
  /\ cmp = IdleCmp
  /\ leg = IdleLeg
  /\ txt = IdleTxt
  /\ play = IdlePlay
  /\ ledger = IdleLedger
  /\ library = IdleLibrary
  /\ \E st \in BackendStrategies, durs \in BackendInputs, topic \in BOOLEAN :
       \E absent \in 0..Len(durs) :
         /\ be = [BeCall(st, Len(durs), Len(durs), SumSeq(durs), durs) EXCEPT !.topic = topic]
         /\ files = {<<"audio.mp3", i, JobDir>> : i \in 1..Len(durs)}
                      \cup {<<"image.jpg", i, JobDir>> : i \in (1..Len(durs)) \ {absent}}
                      \cup (IF st = "remotion" THEN {<<"audio_files.txt", 0, JobDir>>} ELSE {})

NextBackend ==
  \/ EnhAudioSpawn \/ EnhAudioExit \/ EnhVideoSpawn \/ EnhVideoExit
  \/ RevideoConcat \/ RevideoRender
  \/ BasicStart \/ BasicNormalize \/ BasicConcat \/ BasicVideoSpawn \/ BasicVideoExit
  \/ VpStart \/ VpSpawn \/ VpExit \/ VpTimeout \/ VpClose
  \/ RemotionConcatOk \/ RemotionConcatFail \/ RemotionRenderOk \/ RemotionRenderFail
  \/ RemotionAddAudioOk \/ RemotionAddAudioFail

SpecBackend == InitBackend /\ [][NextBackend]_vars

\* One text handed to one of the places that build a drawtext argument.  A
\* text is a short arbitrary string, possibly between two long words, or the
\* example `He said: "Wow!!" <script>`.
TextAlphabet == {"a", " ", "\t", "'", ":", "<", "!"}
ShortTexts == UNION {[1..n -> TextAlphabet] : n \in 0..MaxText}
Fill(k) == [i \in 1..k |-> "a"]
ExampleInput ==
  <<"H", "e", " ", "s", "a", "i", "d", ":", " ", "\"", "W", "o", "w", "!", "!", "\"",
    " ", "<", "s", "c", "r", "i", "p", "t", ">">>
TextInputs ==
  {Fill(j) \o t \o Fill(k) : j \in {0, CaptionKeep - 1}, k \in {0, 2 * WrapWidth}, t \in ShortTexts}
    \cup {ExampleInput}

InitText ==
  /\ status = "pending"
  /\ errorMessage = "null"
  /\ videoUrl = "null"
  /\ assets = NoAssets
  /\ subtitleData = <<>>
  /\ req = IdleReq
  /\ gen = IdleGen
  /\ cmp = IdleCmp
  /\ files = {}
  /\ leg = IdleLeg
  /\ be = IdleBe
  /\ play = IdlePlay
  /\ ledger = IdleLedger
  /\ library = IdleLibrary
  /\ \E t \in TextInputs : txt = [IdleTxt EXCEPT !.pc = "input", !.input = t]

NextText == DrawCaption \/ DrawOverlay \/ DrawTopic \/ DrawTitleCard \/ DrawTitlePage

SpecText == InitText /\ [][NextText]_vars

\* One job with its measured clip durations in ticks, shown by one renderer.
ClipTicks == {DrawFrameTicks * d + (d - 1) : d \in 1..MaxDur}

InitFrames ==
  /\ status = "completed"
  /\ errorMessage = "null"
  /\ videoUrl = "null"
  /\ assets = NoAssets
  /\ req = IdleReq
  /\ gen = IdleGen
  /\ cmp = IdleCmp
  /\ files = {}
  /\ leg = IdleLeg
  /\ be = IdleBe
  /\ txt = IdleTxt
  /\ ledger = IdleLedger
  /\ library = IdleLibrary
  /\ \E n \in 1..MaxSegs : \E durs \in [1..n -> ClipTicks] : \E images \in 1..n :
       /\ subtitleData = BuildSubtitleSegments(durs, durs)
       /\ play = [IdlePlay EXCEPT !.pc = "ready", !.durs = durs, !.images = images,
                                  !.captions = BuildSubtitleSegments(durs, durs)]

NextFrames ==
  \/ PlayerLoad \/ PlayerTimeUpdate
  \/ DrawtextCompose \/ DrawtextFrame
  \/ RemotionCompose \/ RemotionFrame
  \/ RevideoCompose \/ RevideoFrame \/ RevideoFallback

SpecFrames == InitFrames /\ [][NextFrames]_vars

\* The effect selectors called again and again, in any order.
InitEffects ==
  /\ JobInit
  /\ leg = IdleLeg
  /\ be = IdleBe
  /\ txt = IdleTxt
  /\ play = [IdlePlay EXCEPT !.pc = "effects"]
  /\ ledger = IdleLedger
  /\ library = IdleLibrary

NextEffects == KenBurnsEffect \/ SimpleEffect \/ SegmentEffect

SpecEffects == InitEffects /\ [][NextEffects]_vars

\* Generate requests for one pending job of a user with some credits.
InitCredits ==
  /\ JobInit
  /\ leg = IdleLeg
  /\ be = IdleBe
  /\ txt = IdleTxt
  /\ play = IdlePlay
  /\ library = IdleLibrary
  /\ \E credits \in 0..MaxCredits, cost \in 1..MaxCredits :
       ledger = [credits |-> credits, cost |-> cost, charged |-> 0,
                 pc |-> [r \in 1..MaxRequests |-> "idle"], quote |-> NoQuote]

NextCredits ==
  \E r \in 1..MaxRequests :
    \/ CreditStatusCheck(r) \/ CreditRouteCheck(r) \/ LedgerCheck(r)
    \/ LedgerDeduct(r) \/ CreditStart(r)

SpecCredits == InitCredits /\ [][NextCredits]_vars

\* One run of generateScriptAndImages for a job with a topic and a duration.
ScriptTopics == {<<"photosynthesis">>, <<"the", "water cycle">>, <<"how a", "seed", "sprouts">>,
                 <<"the", "roman empire">>}

InitScript ==
  /\ status = "generating"
  /\ errorMessage = "null"
  /\ videoUrl = "null"
  /\ assets = NoAssets
  /\ subtitleData = <<>>
  /\ req = [IdleReq EXCEPT !.runs = 1]
  /\ cmp = IdleCmp
  /\ files = {}
  /\ leg = IdleLeg
  /\ be = IdleBe
  /\ txt = IdleTxt
  /\ play = IdlePlay
  /\ ledger = IdleLedger
  /\ library = IdleLibrary
  /\ \E topic \in ScriptTopics, slots \in 2..MaxSlots :
       gen = [IdleGen EXCEPT !.pc = "script", !.topic = topic,
                             !.duration = slots * SegmentSeconds]

NextScript ==
  \/ ScriptStep
  \/ GenImageOk \/ GenImageFail \/ GenPreview \/ GenSave \/ GenCatch \/ GenRouteCatch

SpecScript == InitScript /\ [][NextScript]_vars

\* One backend builds the text overlays of a job with a font key, a color
\* key and a caption list.
FontKeys == DOMAIN AVAILABLE_FONTS \cup {"undefined", "comic_sans"}
ColorKeys == DOMAIN colorMap \cup {"undefined", "teal", "rainbow"}
CaptionLists ==
  UNION {[1..n -> [text : {"", "caption"}, duration : {MaxDur}]] : n \in 0..MaxSegs}
OverlayStrategies == {"textOverlay", "enhanced", "basic", "remotion", "revideo"}

InitOverlay ==
  /\ JobInit
  /\ leg = IdleLeg
  /\ txt = IdleTxt
  /\ play = IdlePlay
  /\ ledger = IdleLedger
  /\ library = IdleLibrary
  /\ \E st \in OverlayStrategies, font \in FontKeys, color \in ColorKeys,
        segments \in CaptionLists, enabled \in BOOLEAN :
       be = [IdleBe EXCEPT !.pc = "style", !.strategy = st, !.textFont = font,
                           !.textColor = color,
                           !.subtitles = [enabled |-> enabled, segments |-> segments]]

NextOverlay ==
  \/ TextOverlayFilter \/ EnhTextOverlay \/ BasicTextOverlay
  \/ RemotionTextOverlay \/ RevideoTextOverlay

SpecOverlay == InitOverlay /\ [][NextOverlay]_vars

\* Create requests of a user who holds up to maxVideos videos.
InitLibrary ==
  /\ JobInit
  /\ leg = IdleLeg
  /\ be = IdleBe
  /\ txt = IdleTxt
  /\ play = IdlePlay
  /\ ledger = IdleLedger
  /\ \E storage \in {"mem", "database"}, held \in 0..maxVideos :
       library = [storage |-> storage, videos |-> 1..held, clock |-> held,
                  pc |-> [r \in 1..MaxCreates |-> "idle"],
                  todo |-> [r \in 1..MaxCreates |-> {}]]

NextLibrary ==
  \E r \in 1..MaxCreates :
    \/ MemCreateVideo(r) \/ EnforceSelect(r) \/ EnforceDelete(r) \/ InsertVideo(r)

SpecLibrary == InitLibrary /\ [][NextLibrary]_vars

\* createSubtitleSegments is applied to a list of script segments: an empty
\* text, a blank, one word, words that fill one line, two lines and three
\* lines, and over-long words.  A duration is held in ticks of which every
\* number of lines is a divisor.
SubtitleTexts ==
  {<<0>>, <<0, 0>>, <<25>>, <<25, 25>>, <<25, 25, 25>>, <<25, 25, 25, 25, 25>>,
   <<LineLimit + 1>>, <<25, LineLimit + 1>>, <<LineLimit + 1, 25, 25>>}
LineTicks == 6
SubtitleInputs ==
  UNION {[1..n -> [words : SubtitleTexts, duration : {LineTicks * d : d \in 1..MaxDur}]]
           : n \in 1..MaxSegs}

InitSubtitles ==
  /\ JobInit
  /\ leg = IdleLeg
  /\ be = IdleBe
  /\ txt = IdleTxt
  /\ ledger = IdleLedger
  /\ library = IdleLibrary
  /\ \E scriptSegments \in SubtitleInputs, startTime \in {0, LineTicks} :
       play = [IdlePlay EXCEPT !.pc = "segments", !.captions = scriptSegments,
                               !.t = startTime]

NextSubtitles == CreateSubtitleSegments

SpecSubtitles == InitSubtitles /\ [][NextSubtitles]_vars

\* One compile job: the job is in editing with its script and images, the
\* compile route starts compileVideoInBackground, the user may retry.
InitCompile ==
  /\ status = "editing"
  /\ errorMessage = "null"
  /\ videoUrl = "null"
  /\ subtitleData = <<>>
  /\ req = [IdleReq EXCEPT !.runs = MaxRuns - 1]
  /\ gen = IdleGen
  /\ cmp = IdleCmp
  /\ files = {}
  /\ leg = IdleLeg
  /\ be = IdleBe
  /\ txt = IdleTxt
  /\ play = IdlePlay
  /\ ledger = IdleLedger
  /\ library = IdleLibrary
  /\ \E segs \in Scripts :
       assets = [present |-> TRUE, images |-> Len(segs), scriptSegments |-> segs,
                 audioSegments |-> 0]

\* The steps that end when something outside the server answers: the speech
\* API, ffprobe, an image download, ffmpeg, the Remotion CLI.
CompileExternal ==
  \/ CmpAudioOk \/ CmpAudioFail \/ CmpProbe \/ CmpDownloadOk \/ CmpDownloadFail
  \/ RemotionConcatOk \/ RemotionConcatFail \/ RemotionRenderOk \/ RemotionRenderFail
  \/ RemotionAddAudioOk \/ RemotionAddAudioFail

\* The steps the server takes by itself once the awaited call has settled.
CompileInternal ==
  \/ CompileStart \/ CmpSetCompiling \/ CmpLoad \/ CmpCaptions
  \/ CmpRenderReturn \/ CmpComplete \/ CmpCatch \/ CmpRouteCatch

NextCompile ==
  \/ CompileCheck \/ RetryCheck \/ RetryReset
  \/ CompileInternal
  \/ CompileExternal

\* The event loop runs every continuation that is ready; nothing obliges an
\* external process to exit, and compileVideoInBackground sets no timer.
SpecCompile == InitCompile /\ [][NextCompile]_vars /\ WF_vars(CompileInternal)

\* The cost of a video of every allowed duration, provider and image quality.
MinDuration == 20
MaxDuration == 180

InitCost ==
  /\ JobInit
  /\ leg = IdleLeg
  /\ be = IdleBe
  /\ txt = IdleTxt
  /\ play = IdlePlay
  /\ library = IdleLibrary
  /\ \E duration \in MinDuration..MaxDuration, imageProvider \in {"dalle", "runware"},
        imageStyle \in {"standard", "hd"} :
       ledger = [IdleLedger EXCEPT !.quote = [NoQuote EXCEPT !.pc = "asked",
                                                            !.duration = duration,
                                                            !.imageProvider = imageProvider,
                                                            !.imageStyle = imageStyle]]

NextCost == CalculateCost

SpecCost == InitCost /\ [][NextCost]_vars

\* Single-image regenerations of one completed job with two images, asked by
\* a user who holds up to two DALL-E images' worth of credits.
InitRegenerate ==
  /\ status = "completed"
  /\ errorMessage = "null"
  /\ videoUrl = "output.mp4"
  /\ subtitleData = <<>>
  /\ req = IdleReq
  /\ gen = IdleGen
  /\ cmp = IdleCmp
  /\ files = {}
  /\ leg = IdleLeg
  /\ be = IdleBe
  /\ txt = IdleTxt
  /\ play = IdlePlay
  /\ library = IdleLibrary
  /\ assets = [present |-> TRUE, images |-> [i \in 1..MaxSegs |-> OriginalUrl],
               scriptSegments |-> [i \in 1..MaxSegs |-> MaxDur], audioSegments |-> MaxSegs]
  /\ \E credits \in 0..(MaxRequests * DalleImageCost) :
       ledger = [credits |-> credits, start |-> credits, cost |-> 0, charged |-> 0,
                 quote |-> NoQuote,
                 pc |-> [r \in 1..MaxRequests |-> "idle"],
                 index |-> [r \in 1..MaxRequests |-> 0],
                 provider |-> [r \in 1..MaxRequests |-> "none"],
                 price |-> [r \in 1..MaxRequests |-> 0],
                 seen |-> [r \in 1..MaxRequests |-> <<>>],
                 url |-> [r \in 1..MaxRequests |-> EmptyUrl],
                 paid |-> [r \in 1..MaxRequests |-> 0],
                 refunded |-> [r \in 1..MaxRequests |-> 0]]

NextRegenerate ==
  \E r \in 1..MaxRequests :
    \/ RegenRead(r) \/ RegenRouteCheck(r) \/ RegenDeductCheck(r) \/ RegenDeduct(r)
    \/ RegenGenerateOk(r) \/ RegenGenerateFail(r)
    \/ RegenUpdateOk(r) \/ RegenUpdateFail(r) \/ RegenRefund(r)

SpecRegenerate == InitRegenerate /\ [][NextRegenerate]_vars

(* ------------------------------ properties ----------------------------- *)
NonTerminalSpecStatuses == {"pending", "probing", "assembling_audio", "composing_visual", "rendering"}

SpecTransitions ==
  {<<"pending", "probing">>, <<"probing", "assembling_audio">>,
   <<"assembling_audio", "composing_visual">>, <<"composing_visual", "rendering">>,
   <<"rendering", "completed">>, <<"rendering", "timed_out">>}
    \cup {<<s, "failed">> : s \in NonTerminalSpecStatuses}

\* C1 (as stated): every change of the job's status is a transition of
\* pending -> probing -> assembling_audio -> composing_visual -> rendering ->
\* completed, or goes to failed from a non-terminal state, or to timed_out
\* from rendering.
C1_SpecStateMachine == [][status' # status => <<status, status'>> \in SpecTransitions]_vars

\* C1 (amended): the status is always one of the seven documented values,
\* and each value is written only by its own operation: generating by an
\* accepted generate or compile request, compiling by the first step of the
\* compile pipeline, completed by its last step, failed by a pipeline's
\* error handlers, pending by an accepted retry; a script edit writes
\* editing and image regeneration writes script_generated from any status.
C1_CodeStatusWrites ==
  [][/\ status' \in CodeStatuses
     /\ status' # status =>
          /\ status' = "generating" => (req.generate = "checked" \/ req.compile = "checked")
          /\ status' = "compiling" => cmp.pc = "setCompiling"
          /\ status' = "completed" => cmp.pc = "complete"
          /\ status' = "failed" => (cmp.pc \in {"catch", "routeCatch"} \/ gen.pc \in {"catch", "routeCatch"})
          /\ status' = "pending" => req.retry = "checked"]_vars

\* A compile has run to its end: generating, compiling, completed.
C1_Witness == status = "completed" /\ videoUrl = "output.mp4" /\ cmp.pc = "idle"

\* C2: the caption list built by the compile pipeline from N script
\* segments and N measured durations has N entries, starts at 0, is
\* contiguous, and ends at the sum of the measured durations.
C2_CaptionContiguity ==
  cmp.captions # <<>> =>
    LET c == cmp.captions
        N == Len(cmp.segs)
    IN /\ Len(cmp.audioDurations) = N
       /\ Len(c) = N
       /\ c[1].startTime = 0
       /\ \A i \in 1..(N - 1) : c[i].endTime = c[i + 1].startTime
       /\ c[N].endTime = SumSeq(cmp.audioDurations)
       /\ \A i \in 1..N : c[i].endTime - c[i].startTime = cmp.audioDurations[i]

\* Two captions built from measured durations that differ from each other
\* and from the planned duration.
C2_Witness ==
  /\ Len(cmp.captions) = 2
  /\ cmp.audioDurations[1] # cmp.audioDurations[2]
  /\ cmp.audioDurations[1] > 0
  /\ cmp.audioDurations[1] # cmp.segs[1]
  /\ cmp.captions[2].endTime = cmp.audioDurations[1] + cmp.audioDurations[2]

BadProbe(o) == o.code # 0 \/ o.nan \/ o.value <= 0

\* C5 (as stated): once the probe of a segment exited non-zero or printed
\* something that is not a positive number, the compile is on its failure
\* path and no caption list is built.
C5_BadProbeAborts ==
  \A i \in 1..Len(cmp.probes) :
    BadProbe(cmp.probes[i]) => (cmp.pc \in {"catch", "routeCatch"} /\ cmp.captions = <<>>)

IntermediateKinds == {"audio_files.txt", "final_audio.wav", "image.jpg", "output_with_audio.mp4"}

\* C8 (as stated): when the job is in a terminal status and no pipeline is
\* running, no list file, concatenated audio, downloaded image or partial
\* output is left in the job's workspace.
C8_WorkspaceClean ==
  (status \in {"completed", "failed"} /\ cmp.pc = "idle" /\ gen.pc = "idle")
    => \A f \in files : f[1] \notin IntermediateKinds

\* C9 (as stated): a backend call ends failed only if a fallback backend
\* was run and failed too.
C9_FailedOnlyAfterFallback == be.result = "failed" => be.fallback = "failed"

\* C3 (as stated): the visual timeline a backend builds for N images and a
\* total duration D has N slots of D/N each, the first starting at 0, each
\* starting where the previous one ends, the last ending at D.  (Slot times
\* are multiplied by N.)
C3_EqualSlots ==
  be.slots # <<>> =>
    LET n == be.n
        sl == be.slots
    IN /\ Len(sl) = n
       /\ sl[1].startTime = 0
       /\ \A i \in 1..n : sl[i].endTime - sl[i].startTime = be.total
       /\ \A i \in 1..(n - 1) : sl[i].endTime = sl[i + 1].startTime
       /\ sl[n].endTime = be.total * n

\* C4 (as stated): every caption's length is the length a successful probe
\* of its clip reported, and the total duration handed to the renderer is
\* the sum of probed lengths, in the compile pipeline and in the single-pass
\* pipeline.
C4_MeasuredOnly ==
  /\ \A i \in 1..Len(cmp.captions) :
       /\ getAudioDuration(cmp.probes[i]).ok
       /\ cmp.captions[i].endTime - cmp.captions[i].startTime = cmp.probes[i].value
  /\ \A i \in 1..Len(leg.captions) :
       /\ getAudioDuration(leg.probes[i]).ok
       /\ leg.captions[i].endTime - leg.captions[i].startTime = leg.probes[i].value
  /\ leg.pc = "rendering" =>
       /\ Len(leg.probes) = Len(leg.segs)
       /\ be.total = SumSeq([i \in 1..Len(leg.probes) |-> leg.probes[i].value])

\* The timer fired while createVideo was running and the handler has
\* written its report.
TimeoutReported ==
  leg.timedOut /\ leg.firedAt = "rendering" /\ leg.race \in {"cleanup", "handled"}

C7_TimeoutStopsJob ==
  [][TimeoutReported => (be.proc = "none" /\ leg'.pc = leg.pc /\ be' = be)]_vars

\* C10 (as stated): while a render backend is running for a pipeline, the
\* probe of every clip of that pipeline has returned.
C10_RenderAfterProbes ==
  be.pc # "idle" =>
    /\ cmp.pc # "idle" => Len(cmp.probes) = Len(cmp.segs)
    /\ leg.pc # "idle" => Len(leg.probes) = Len(leg.segs)

\* C11 (as stated): a backend call whose image list names a file that does
\* not exist ends in an error and leaves no file at the output path.
C11_MissingImageFails ==
  (be.pc = "returned" /\ be.n > 0 /\ ~InputsPresent(be.imageIn, be.n))
    => (be.result = "failed" /\ <<be.output, 0, be.dir>> \notin files)

\* File names that carry the job's identifier.
IdNames == {"image-id.jpg", "audio-id.mp3", "video-id.mp4"}

\* C12 (as stated): every file the job has written lies in the job's own
\* directory or carries the job's identifier in its name.
C12_PathsNamespaced == \A f \in files : f[3] = JobDir \/ f[1] \in IdNames

\* The cleaner of a drawing place, applied to a text.
Sanitize(sanitizer, text) ==
  IF sanitizer = "caption" THEN CleanCaptionText(text) ELSE CleanOverlayText(text)

\* C13 (as stated): cleaning a cleaned caption or overlay text again gives
\* the same text.
C13_Idempotent ==
  (txt.pc = "done" /\ txt.sanitizer \in {"caption", "overlay"})
    => Sanitize(txt.sanitizer, txt.output) = txt.output

\* C14 (as stated): every line put into a drawtext argument has at most 60
\* characters, no quote, and only word characters, whitespace and . , ! ? -
C14_SafeLines ==
  txt.pc = "done" =>
    \A i \in 1..Len(txt.lines) :
      /\ Len(txt.lines[i]) <= 60
      /\ \A k \in 1..Len(txt.lines[i]) : txt.lines[i][k] \in OverlayAllowed

ExampleDrawn ==
  txt.pc = "done" /\ txt.input = ExampleInput /\ txt.sanitizer \in {"caption", "overlay"}

\* C15 (as stated): the example text is cleaned to `He said Wow`.
C15_ExampleAsStated ==
  ExampleDrawn => txt.output = <<"H", "e", " ", "s", "a", "i", "d", " ", "W", "o", "w">>

\* C15 (amended): the caption cleaner and the overlay cleaner both turn the
\* example text into `He said Wow!! script`: the quotes, the colon and the
\* angle brackets go, the exclamation marks and the word script stay.
C15_ExampleCleaned ==
  ExampleDrawn =>
    txt.output = <<"H", "e", " ", "s", "a", "i", "d", " ", "W", "o", "w", "!", "!", " ",
                   "s", "c", "r", "i", "p", "t">>

\* The example text has gone through the caption cleaner.
C15_Witness == txt.pc = "done" /\ txt.input = ExampleInput /\ txt.sanitizer = "caption"

\* C16: while captions are on, entry i is on screen exactly when
\* startTime <= t < endTime, so at most one entry is on screen at any time,
\* also where one entry ends and the next starts.
C16_HalfOpenVisibility ==
  (play.pc = "shown" /\ play.subtitlesEnabled)
    => /\ \A i \in 1..Len(play.captions) :
            i \in play.visible <=> /\ play.captions[i].startTime <= play.t
                                   /\ play.t < play.captions[i].endTime
       /\ Cardinality(play.visible) <= 1
\* C17: the image on screen at time t is the one whose equal share of the
\* total duration contains t: with n images and total duration D, image i is
\* shown for (i-1) * D/n <= t < i * D/n, whatever the clips measured.
C17_ImageByEqualSlots ==
  (play.pc = "shown" /\ play.renderer \in {"remotion", "revideo"})
    => /\ (play.image - 1) * SumSeq(play.durs) <= play.t * play.images
       /\ play.t * play.images < play.image * SumSeq(play.durs)
AudioOps == [i \in 1..Len(be.steps) |-> be.steps[i].op]
ConcatSteps == {i \in 1..Len(be.steps) : be.steps[i].op = "concat"}

\* C19: a backend given exactly one audio clip starts only a normalize
\* command and never a concatenation; given two or more clips, a backend that
\* has finished its audio has started the concatenation exactly once, after a
\* normalize command for every clip, with the clips in index order.  (The
\* videoProcessor joins the audio inside its render command and has no audio
\* step of its own.)
C19_AudioAssembly ==
  (be.strategy \in {"enhanced", "basic", "remotion", "revideo"})
    => /\ be.clips = 1 => ConcatSteps = {}
       /\ (be.clips = 1 /\ be.pc = "returned" /\ be.result = "ok")
            => AudioOps = <<"normalize">>
       /\ (be.clips >= 2 /\ be.pc = "returned" /\ be.result = "ok")
            => /\ Cardinality(ConcatSteps) = 1
               /\ \A c \in ConcatSteps :
                    /\ be.steps[c].clips = [i \in 1..be.clips |-> i]
                    /\ \A i \in 1..be.clips :
                         \E k \in 1..(c - 1) : be.steps[k] = NormalizeStep(i)
PresetCount(of) ==
  CASE of = "kenBurns" -> Len(kenBurnsEffects)
    [] of = "simple" -> Len(SimpleEffects)
    [] of = "segment" -> Len(zoomEffects)

PresetList(of) ==
  CASE of = "kenBurns" -> kenBurnsEffects
    [] of = "simple" -> SimpleEffects
    [] of = "segment" -> zoomEffects

\* C20: the preset given to an image is the one at position index modulo the
\* number of presets, so two calls of the same selector whose indexes are
\* equal, or differ by a multiple of the number of presets, give the same
\* preset.
C20_EffectByIndexModulo ==
  /\ play.effect.of # "none"
       => play.effect.preset
            = PresetList(play.effect.of)[(play.effect.index % PresetCount(play.effect.of)) + 1]
  /\ (play.effect.of # "none" /\ play.prevEffect.of = play.effect.of
        /\ play.prevEffect.index % PresetCount(play.effect.of)
              = play.effect.index % PresetCount(play.effect.of))
       => play.prevEffect.preset = play.effect.preset

\* Two calls of one selector with indexes i and i + presetCount, the larger
\* one with two digits.
C20_Witness ==
  /\ play.effect.of \in {"simple", "segment"}
  /\ play.prevEffect.of = play.effect.of
  /\ play.effect.index = play.prevEffect.index + PresetCount(play.effect.of)
  /\ play.effect.index >= 10
  /\ play.prevEffect.preset = play.effect.preset
RenderCauses == {"missing", "corrupt", "exit", "timeout"}

RenderErrorMessage(strategy, cause) ==
  IF strategy = "videoProcessor" THEN VpErrorMessage(cause) ELSE EnhErrorMessage(cause)

\* C21: a render that failed for one of the four causes reports a kind that
\* the same backend reports for no other of the four causes.
C21_DistinctKinds ==
  (be.pc = "returned" /\ be.result = "failed" /\ be.cause \in RenderCauses)
    => \A other \in RenderCauses \ {be.cause} :
         RenderErrorMessage(be.strategy, other) # be.err
\* C22: in every state in which the stored status is failed, the stored
\* errorMessage is a non-empty message.
C22_FailedHasMessage == status = "failed" => errorMessage \notin {"null", ""}
C24_CreditGate ==
  [][\A r \in 1..MaxRequests :
       /\ (ledger.pc[r] # "deducted" /\ ledger'.pc[r] = "deducted")
            => /\ ledger.credits >= ledger.cost
               /\ ledger'.credits = ledger.credits - ledger.cost
       /\ (ledger.pc[r] # "started" /\ ledger'.pc[r] = "started")
            => ledger.pc[r] = "deducted"
       /\ (ledger.pc[r] # "refused" /\ ledger'.pc[r] = "refused")
            => ledger'.credits = ledger.credits /\ status' = status]_vars

\* C25: when the script generator fails with a quota or a rate-limit error the
\* job goes on with the segments of the offline fallback generator, each with a
\* text, an imagePrompt and a duration; when it fails with any other error the
\* job ends failed.
FallbackCauses == {"quota", "rate_limit"}

ScriptStepEnds == gen.pc = "script" /\ gen'.pc # "script"

C25_FallbackOnQuotaOrRateLimit ==
  [][/\ (ScriptStepEnds /\ gen'.cause \in FallbackCauses) =>
           (/\ gen'.pc = "images"
            /\ gen'.segs = generateFallbackScript(gen.topic, gen.duration)
            /\ \A i \in 1..Len(gen'.segs) :
                 {"text", "imagePrompt", "duration"} \subseteq DOMAIN gen'.segs[i])
     /\ (ScriptStepEnds /\ gen'.cause \in (DOMAIN ApiErrors) \ FallbackCauses) =>
           gen'.pc = "catch"
     /\ gen.pc = "catch" => status' = "failed"]_vars

\* C26: a font key or a color key that is not in the configuration table is
\* replaced by the default (a bold sans-serif font, yellow) before it reaches
\* the renderer: no overlay carries the unknown key.
BoldSansSerif == {"DejaVuSans-Bold.ttf", "DejaVu Sans, sans-serif", "Arial, sans-serif"}

C26_UnknownKeyTakesDefault ==
  be.pc = "styled" =>
    \A i \in 1..Len(be.overlay) :
      /\ be.textFont \notin DOMAIN AVAILABLE_FONTS => be.overlay[i].fontfile \in BoldSansSerif
      /\ be.textColor \notin DOMAIN colorMap => be.overlay[i].fontcolor = "yellow"

\* C30: with an empty caption list or with captions disabled a backend
\* produces the video without any text overlay instruction.
C30_NoCaptionsNoOverlay ==
  (be.pc = "styled" /\ (~be.subtitles.enabled \/ Len(be.subtitles.segments) = 0))
    => be.overlay = <<>>

\* C27: a user owns at most 10 stored videos at any time, also when videos
\* are created concurrently; the oldest go first.
C27_AtMostTenVideos == Cardinality(library.videos) <= maxVideos

\* C29: the lines of every segment divide the segment's window evenly and
\* without gaps, and the last entry ends at startTime plus the sum of all
\* segment durations, also for an empty text or an over-long word.
SegmentWindowStart(i) == play.t + SumSeq([k \in 1..(i - 1) |-> play.captions[k].duration])
LinesBefore(i) == SumSeq([k \in 1..(i - 1) |-> Len(SubtitleLines(play.captions[k].words))])

C29_LinesCoverSegments ==
  play.pc = "segmented" =>
    /\ \A i \in 1..Len(play.captions) :
         LET n == Len(SubtitleLines(play.captions[i].words))
         IN /\ n >= 1
            /\ \A j \in 1..n :
                 /\ play.windows[LinesBefore(i) + j].startTime * n
                      = SegmentWindowStart(i) * n + (j - 1) * play.captions[i].duration
                 /\ play.windows[LinesBefore(i) + j].endTime * n
                      = SegmentWindowStart(i) * n + j * play.captions[i].duration
    /\ Len(play.windows) >= 1
    /\ play.windows[Len(play.windows)].endTime
         = SegmentWindowStart(Len(play.captions) + 1)

\* C28: every started compile job eventually reaches a terminal status
\* (completed, failed or timed_out), also when an external process never
\* exits.
TerminalStatuses == {"completed", "failed", "timed_out"}

C28_CompileTerminates == (cmp.pc # "idle") ~> (status \in TerminalStatuses)

\* C31: of the generate (or compile) requests that arrive together for one
\* video at most one passes the status check and starts a pipeline.  No step
\* of a pipeline is taken under SpecCredits: a pipeline that has been started
\* is still running.
StartedRequests == {r \in 1..MaxRequests : ledger.pc[r] = "started"}

C31_OnePipelinePerVideo == Cardinality(StartedRequests) <= 1

\* C34: the user's credit balance is never negative, also when two
\* deductions interleave between the balance check and the balance update.
C34_BalanceNeverNegative == ledger.credits >= 0

\* C32: after a retry has reset the job to pending, no write of the earlier
\* attempt's pipeline changes the job's status, assets or videoUrl.  A
\* pipeline starts together with the write of generating, so a pending job
\* with a running pipeline is a job that was reset while the pipeline ran.
ResetWhileRunning == status = "pending" /\ (gen.pc # "idle" \/ cmp.pc # "idle")

C32_ResetSilencesEarlierPipeline ==
  [][(ResetWhileRunning /\ (gen' # gen \/ cmp' # cmp))
       => (status' = status /\ assets' = assets /\ videoUrl' = videoUrl)]_vars

\* C33: once the generation timeout has fired and the job has been recorded
\* as failed, the generation that lost the race writes no status any more: the
\* job does not become completed.
TimeoutRecorded == leg.timedOut /\ leg.race \in {"cleanup", "handled"} /\ status = "failed"

C33_TimedOutStaysFailed == [][TimeoutRecorded => status' = "failed"]_vars

\* C35: the compile reaches its completed write only after the render
\* backend has returned successfully; the write stores the output path and
\* the caption list built from the measured durations, and in every state
\* with status completed the stored videoUrl and caption list are those.
StoredDurations == [i \in 1..Len(subtitleData) |-> subtitleData[i].duration]

C35_CompletedAfterRender ==
  [][/\ (cmp.pc # "complete" /\ cmp'.pc = "complete") => be.result = "ok"
     /\ (status # "completed" /\ status' = "completed") =>
           (/\ cmp.pc = "complete"
            /\ subtitleData' = BuildSubtitleSegments(cmp.segs, cmp.audioDurations))
     /\ status' = "completed" =>
           (/\ videoUrl' = "output.mp4"
            /\ Len(subtitleData') = Len(assets'.scriptSegments)
            /\ subtitleData' = BuildSubtitleSegments(assets'.scriptSegments, StoredDurations'))]_vars

\* A compile has ended completed with its output and captions stored.
C35_Witness ==
  /\ status = "completed" /\ cmp.pc = "idle" /\ be.pc = "idle"
  /\ videoUrl = "output.mp4" /\ Len(subtitleData) >= 1
  /\ <<"output.mp4", 0, JobDir>> \in files

\* C37: for a requested duration in the allowed range the segments of
\* generateFallbackScript are contiguous from 0, their number is
\* max(2, floor(duration / 15)), and their durations sum to the duration.
C37_FallbackCoversDuration ==
  (gen.source = "fallback" /\ gen.pc = "images") =>
    /\ Len(gen.segs) = Max(MinSegments, gen.duration \div SegmentSeconds)
    /\ \A i \in 1..Len(gen.segs) :
         gen.segs[i].startTime = (IF i = 1 THEN 0 ELSE gen.segs[i - 1].endTime)
    /\ SumSeq([i \in 1..Len(gen.segs) |-> gen.segs[i].duration]) = gen.duration

RegenRequests == 1..MaxRequests

RegenEnded == \A r \in RegenRequests : ledger.pc[r] \in {"refused", "done", "error"}

RECURSIVE RegenSpent(_)
RegenSpent(n) ==
  IF n = 0 THEN 0
  ELSE RegenSpent(n - 1) + (IF ledger.pc[n] = "done" THEN ledger.price[n] ELSE 0)

C36_FailedRegenerationRefunded ==
  /\ \A r \in RegenRequests :
       ledger.pc[r] = "error"
         => /\ ledger.paid[r] = ledger.price[r]
            /\ ledger.refunded[r] = ledger.paid[r]
            /\ \A i \in 1..Len(assets.images) : assets.images[i] # NewUrl(r)
  /\ RegenEnded => ledger.credits = ledger.start - RegenSpent(MaxRequests)

\* The part of C36 the code keeps: a failed regeneration stores no image.
C36_FailedRegenerationKeepsImages ==
  \A r \in RegenRequests :
    ledger.pc[r] = "error" => \A i \in 1..Len(assets.images) : assets.images[i] # NewUrl(r)

\* A request whose refund was committed: it paid, failed and got the price back.
C36_Refunded ==
  \E r \in RegenRequests :
    ledger.pc[r] = "error" /\ ledger.paid[r] > 0 /\ ledger.refunded[r] = ledger.paid[r]
====
